---- MODULE Spec2Model ----
(***************************************************************************)
(* Model of the server pipeline of AWS-Cost-Optimizer: the run store       *)
(* (server/app/state/store.py), the execution service                      *)
(* (server/app/executor/service.py), the rollback service                  *)
(* (server/app/executor/rollback.py) and the routes that bind them         *)
(* (server/app/api/routes/optimizer.py), on a bucket as the scanner        *)
(* (server/app/scanner/service.py) sees it; and of the command-line        *)
(* executor and rollback manager (executor/executor.py,                    *)
(* executor/rollback.py).                                                  *)
(*                                                                         *)
(* Identifiers produced by uuid.uuid4() are modelled as fresh tokens:      *)
(* run ids and execution ids are drawn from counters, the audit id of the  *)
(* i-th action of batch e is the pair <<e, i>>.  Timestamps are readings   *)
(* of a logical clock that ticks at every store mutation.                  *)
(***************************************************************************)
EXTENDS Integers, Sequences, FiniteSets, TLC

(***************************************************************************)
(* Bounds of the model.                                                    *)
(***************************************************************************)
MaxRecs == 2
MaxRuns == 1
MaxExecs == 2
MaxClock == 4
MaxBatch == 3

(***************************************************************************)
(* Enumerations of models/contracts.py.                                    *)
(***************************************************************************)
RecommendationType ==
    {"change_storage_class", "add_lifecycle_policy",
     "delete_incomplete_upload", "delete_stale_object"}

ExecutionMode == {"dry_run", "safe", "standard", "full"}

RunStatus == {"scanned", "scored", "executed"}

ExecutionActionStatus == {"dry_run", "executed", "skipped", "blocked", "failed"}

RollbackStatus == {"pending", "not_applicable", "rolled_back", "failed"}

\* Optional[...] = None
None == "none"

(***************************************************************************)
(* ExecutionService class attributes.                                      *)
(***************************************************************************)
REVERSIBLE_ACTIONS == {"change_storage_class", "add_lifecycle_policy"}

REQUIRED_PERMISSIONS(type) ==
    CASE type = "change_storage_class" -> <<"s3:GetObject", "s3:PutObject">>
      [] type = "add_lifecycle_policy" ->
            <<"s3:GetLifecycleConfiguration", "s3:PutLifecycleConfiguration">>
      [] type = "delete_incomplete_upload" ->
            <<"s3:ListBucketMultipartUploads", "s3:AbortMultipartUpload">>
      [] type = "delete_stale_object" -> <<"s3:GetObject", "s3:DeleteObject">>
      [] OTHER -> << >>

\* The default of EXECUTOR_GRANTED_PERMISSIONS.
DefaultGranted ==
    {"s3:GetObject", "s3:PutObject", "s3:GetLifecycleConfiguration",
     "s3:PutLifecycleConfiguration", "s3:ListBucketMultipartUploads",
     "s3:AbortMultipartUpload"}

\* The values of the parsed EXECUTOR_GRANTED_PERMISSIONS the model draws from:
\* every permission an action can require, and s3:GetObject alone.
GrantChoices ==
    {DefaultGranted \cup {"s3:DeleteObject"}, {"s3:GetObject"}}

\* The environments the process may run under: the two variables read at
\* lines 61-62 of execute.
Environments == [granted : GrantChoices, allow_destructive : BOOLEAN]

Range(s) == {s[i] : i \in DOMAIN s}

(***************************************************************************)
(* The bucket the services act on, as the S3 client shows it.  An object   *)
(* is [storage_class, age_days, size_mib]; the lifecycle configuration is  *)
(* a set of at most one sequence of rule IDs (empty:                       *)
(* NoSuchLifecycleConfiguration); uploads are the keys of the incomplete   *)
(* multipart uploads, all older than the scanner's cutoff.                 *)
(***************************************************************************)
_COLD_DAYS == 90
_STALE_DAYS == 365
_TARGET_CLASS == "GLACIER_IR"

\* The rules _execute_action adds, by ID.
NewRules == <<"aws-cost-optimizer-archive", "aws-cost-optimizer-multipart-cleanup">>

\* A bucket with a cold object, a stale object, no lifecycle configuration
\* and one incomplete upload.
FullBucket ==
    [objects |-> [k \in {"cold", "stale"} |->
                    [storage_class |-> "STANDARD",
                     age_days |-> IF k = "cold" THEN 200 ELSE 400,
                     size_mib |-> 200]],
     lifecycle |-> {},
     uploads |-> {"part"}]

\* The buckets: any of FullBucket's objects and uploads; a bucket that has a
\* lifecycle configuration has one rule of its owner's.
Buckets ==
    {[objects |-> [k \in keys |-> FullBucket.objects[k]],
      lifecycle |-> lifecycle,
      uploads |-> uploads] :
        keys \in SUBSET {"cold", "stale"},
        lifecycle \in {{}, {<<"owner-rule">>}},
        uploads \in SUBSET {"part"}}

(***************************************************************************)
(* ScannerService (scanner/service.py).  A recommendation is               *)
(* [id, recommendation_type, key, storage_class, size_mib, age_days,       *)
(* keyword]: its size in MiB, the whole days since last_modified as a set  *)
(* of at most one number (empty: last_modified is None), and whether its   *)
(* reason holds one of the words the scorer looks for (no reason the       *)
(* scanner writes does).                                                   *)
(***************************************************************************)
\* list_objects_v2 returns the keys in lexicographic order.
KeyOrder == <<"cold", "stale">>

\* _scan_objects
ScanObjects(bucket) ==
    LET listed == SelectSeq(KeyOrder, LAMBDA k : k \in DOMAIN bucket.objects)
        found == SelectSeq(listed, LAMBDA k :
                    \/ bucket.objects[k].age_days >= _STALE_DAYS
                    \/ /\ bucket.objects[k].age_days >= _COLD_DAYS
                       /\ bucket.objects[k].storage_class = "STANDARD")
    IN  [i \in DOMAIN found |->
            [id |-> 0,
             recommendation_type |->
                 IF bucket.objects[found[i]].age_days >= _STALE_DAYS
                 THEN "delete_stale_object" ELSE "change_storage_class",
             key |-> found[i],
             storage_class |-> bucket.objects[found[i]].storage_class,
             size_mib |-> bucket.objects[found[i]].size_mib,
             age_days |-> {bucket.objects[found[i]].age_days},
             keyword |-> FALSE]]

\* _check_lifecycle
CheckLifecycle(bucket) ==
    IF bucket.lifecycle # {} THEN << >>
    ELSE << [id |-> 0, recommendation_type |-> "add_lifecycle_policy",
             key |-> None, storage_class |-> None,
             size_mib |-> 0, age_days |-> {}, keyword |-> FALSE] >>

\* _check_multipart_uploads: the upload id is stored in storage_class.
CheckMultipartUploads(bucket) ==
    IF "part" \in bucket.uploads
    THEN << [id |-> 0, recommendation_type |-> "delete_incomplete_upload",
             key |-> "part", storage_class |-> "upload-id",
             size_mib |-> 0, age_days |-> {8}, keyword |-> FALSE] >>
    ELSE << >>

\* _scan_bucket
ScanBucket(bucket) ==
    ScanObjects(bucket) \o CheckLifecycle(bucket) \o CheckMultipartUploads(bucket)

\* The buckets the model starts from: those in which the scanner finds at
\* most MaxRecs recommendations.
BucketStates == {bucket \in Buckets : Len(ScanBucket(bucket)) <= MaxRecs}

(***************************************************************************)
(* State.                                                                  *)
(***************************************************************************)
VARIABLES
    runs,        \* table runs: run_id -> row
    audit,       \* table execution_audit: audit_id -> row
    clock,       \* datetime.now(): ticks at every store mutation
    lock,        \* RunStore._lock: 0 when free, else the holder
    txn,         \* the open sqlite transaction of the lock holder
    env,         \* the process environment: [granted, allow_destructive]
    nextExec,    \* the next execution id uuid4 yields
    exe,         \* the Execute requests in flight, per worker
    rb,          \* the Rollback request in flight
    adapterLog,  \* the mutating S3 verbs invoked so far
    s3,          \* the bucket: its objects, lifecycle rules and uploads
    ret,         \* the last direct call of a RunStore method and its return
    lx,          \* a run of Executor.execute (src/executor/executor.py)
    lr           \* a run of RollbackManager.rollback_batch (src/executor/rollback.py)

storeVars == <<runs, audit, clock, lock, txn>>
otherVars == <<ret, lx, lr>>
vars == <<runs, audit, clock, lock, txn, env, nextExec, exe, rb, adapterLog, s3, ret, lx, lr>>

(***************************************************************************)
(* ExecutionService (executor/service.py).                                 *)
(*                                                                         *)
(* A recommendation is as the scanner writes it; a risk score is           *)
(* [recommendation_id, requires_approval, safe_to_automate]; an            *)
(* Optional[bool] is "true", "false" or None; an Optional[dict] is a set   *)
(* of at most one record.                                                  *)
(***************************************************************************)

\* A _resolve_mode that ignores the dry_run override of the request.
ResolveModeIgnoringOverride(mode, dry_run) == <<mode, mode = "dry_run">>

\* A _resolve_mode in which the dry_run override wins over the mode.
ResolveModeOverrideFirst(mode, dry_run) ==
    IF dry_run = "true" THEN <<mode, TRUE>>
    ELSE IF dry_run = "false" THEN <<mode, FALSE>>
    ELSE <<mode, mode = "dry_run">>

\* A gate that takes STANDARD for FULL.
IsModeEligibleStandardAsFull(mode, score) ==
    IF mode = "dry_run" THEN TRUE
    ELSE IF mode = "safe" THEN score.safe_to_automate
    ELSE TRUE

\* A gate that takes SAFE for STANDARD.
IsModeEligibleSafeAsStandard(mode, score) ==
    IF mode = "dry_run" THEN TRUE
    ELSE IF mode \in {"safe", "standard"} THEN ~score.requires_approval
    ELSE TRUE

\* _resolve_mode: <<effective mode, dry_run>>.
ResolveMode(mode, dry_run) ==
    IF mode = "dry_run" THEN <<"dry_run", TRUE>>
    ELSE IF dry_run = "true" THEN <<mode, TRUE>>
    ELSE IF dry_run = "false" THEN <<mode, FALSE>>
    ELSE <<mode, mode = "dry_run">>

\* _is_mode_eligible
IsModeEligible(mode, score) ==
    IF mode = "dry_run" THEN TRUE
    ELSE IF mode = "safe" THEN score.safe_to_automate
    ELSE IF mode = "standard" THEN ~score.requires_approval
    ELSE TRUE

\* score_by_id = {score.recommendation_id: score for score in scores}, then
\* score_by_id.get(id): the last score of the list with that id, as a set of
\* at most one score.
ScoreById(scores, id) ==
    LET hits == {i \in DOMAIN scores : scores[i].recommendation_id = id}
    IN  IF hits = {} THEN {}
        ELSE {scores[CHOOSE i \in hits : \A j \in hits : j <= i]}

\* A permission check that finds nothing missing.
NothingMissing(required, granted) == << >>

\* missing_permissions = [p for p in required_permissions if p not in granted]
MissingPermissions(required, granted) ==
    SelectSeq(required, LAMBDA p : p \notin granted)

\* A destructive guard that lets every action through.
DestructiveNeverBlocked(type, allow_destructive) == FALSE

\* The guard of line 136.
DestructiveBlocked(type, allow_destructive) ==
    type = "delete_stale_object" /\ ~allow_destructive

\* A rollback_available that does not look at the type of the action.
RollbackAvailableForAnyType(status, type, simulated) ==
    status = "executed" /\ ~simulated

\* rollback_available of _result.
RollbackAvailable(status, type, simulated) ==
    /\ status = "executed"
    /\ type \in REVERSIBLE_ACTIONS
    /\ ~simulated

\* rollback_status of _result.
InitialRollbackStatus(rollback_available) ==
    IF rollback_available THEN "pending" ELSE "not_applicable"

\* _capture_post_change_state
CapturePostChangeState(rec, simulated) ==
    [action |-> rec.recommendation_type, simulated |-> simulated]

\* _capture_pre_change_state: of the snapshot, what rollback reads.  It is
\* taken from the recommendation; existing_lifecycle_rules, a set of at most
\* one sequence of rule IDs, is what _execute_action adds to it.
CapturePreChangeState(rec) ==
    [key |-> rec.key, storage_class |-> rec.storage_class,
     existing_lifecycle_rules |-> {}]

\* _result: the ExecutionActionResult.  score is a set of at most one score.
Result(audit_id, rec, score, status, message, permitted, required_permissions, missing_permissions, simulated, pre_change_state, post_change_state) ==
    LET rollback_available ==
            RollbackAvailable(status, rec.recommendation_type, simulated)
    IN  [audit_id |-> audit_id,
         recommendation_id |-> rec.id,
         recommendation_type |-> rec.recommendation_type,
         requires_approval |->
             IF score = {} THEN TRUE
             ELSE (CHOOSE s \in score : TRUE).requires_approval,
         status |-> status,
         message |-> message,
         permitted |-> permitted,
         required_permissions |-> required_permissions,
         missing_permissions |-> missing_permissions,
         simulated |-> simulated,
         pre_change_state |-> pre_change_state,
         post_change_state |-> post_change_state,
         rollback_available |-> rollback_available,
         rollback_status |-> InitialRollbackStatus(rollback_available)]

\* _execute_action: what the S3 client may answer for each type.  For a
\* lifecycle policy the read of the existing rules can fail (a ClientError
\* other than NoSuchLifecycleConfiguration) before the put is attempted.
AdapterOutcomes(type) ==
    IF type = "add_lifecycle_policy" THEN {"ok", "get_error", "error"}
    ELSE {"ok", "error"}

\* _execute_action: the mutating verb it calls for a type.
MutatingVerb(type) ==
    CASE type = "change_storage_class" -> "copy_object"
      [] type = "add_lifecycle_policy" -> "put_bucket_lifecycle_configuration"
      [] type = "delete_incomplete_upload" -> "abort_multipart_upload"
      [] type = "delete_stale_object" -> "delete_object"

\* _execute_action: the mutating calls made, as log entries.
ExecuteActionCalls(execution_id, index, rec, outcome) ==
    IF outcome = "get_error" THEN {}
    ELSE {[src |-> "execute", exec |-> execution_id, idx |-> index,
           rec |-> rec.id, verb |-> MutatingVerb(rec.recommendation_type),
           ok |-> (outcome = "ok")]}

\* What the S3 client answers to the calls of _execute_action when it is
\* free to answer outcome: copying an object that does not exist and
\* aborting an upload that does not exist are errors.
S3Answer(bucket, rec, outcome) ==
    IF /\ outcome = "ok"
       /\ \/ /\ rec.recommendation_type = "change_storage_class"
             /\ rec.key \notin DOMAIN bucket.objects
          \/ /\ rec.recommendation_type = "delete_incomplete_upload"
             /\ rec.key \notin bucket.uploads
    THEN "error"
    ELSE outcome

\* The rules put by _execute_action: the existing ones, then the new ones
\* whose ID is not among them.
MergedRules(existing_rules) ==
    LET existing == IF existing_rules = {} THEN << >>
                    ELSE CHOOSE r \in existing_rules : TRUE
    IN  existing \o SelectSeq(NewRules, LAMBDA id : id \notin Range(existing))

\* _execute_action on a bucket, the S3 client answering answer: whether it
\* succeeded, the extra state it returns (the rules the bucket had, for
\* existing_lifecycle_rules) and the bucket afterwards.
ExecuteAction(bucket, rec, answer) ==
    LET type == rec.recommendation_type
    IN  IF answer # "ok" THEN
            [success |-> FALSE, existing_lifecycle_rules |-> {}, bucket |-> bucket]
        ELSE IF type = "change_storage_class" THEN
            [success |-> TRUE, existing_lifecycle_rules |-> {},
             bucket |-> [bucket EXCEPT !.objects[rec.key].storage_class = _TARGET_CLASS,
                                       !.objects[rec.key].age_days = 0]]
        ELSE IF type = "add_lifecycle_policy" THEN
            [success |-> TRUE, existing_lifecycle_rules |-> bucket.lifecycle,
             bucket |-> [bucket EXCEPT !.lifecycle = {MergedRules(bucket.lifecycle)}]]
        ELSE IF type = "delete_incomplete_upload" THEN
            [success |-> TRUE, existing_lifecycle_rules |-> {},
             bucket |-> [bucket EXCEPT !.uploads = @ \ {rec.key}]]
        ELSE
            [success |-> TRUE, existing_lifecycle_rules |-> {},
             bucket |-> [bucket EXCEPT !.objects =
                            [k \in DOMAIN @ \ {rec.key} |-> @[k]]]]

\* A guard that lets one more action through.
BeyondMaxActionsOffByOne(index, max_actions) == index > max_actions

\* The max_actions guard (line 72).
BeyondMaxActions(index, max_actions) == index >= max_actions

\* The body of the loop of execute for the recommendation at 0-based index,
\* on a bucket, the S3 client free to answer outcome: the result appended,
\* the counter incremented, and the bucket afterwards.
ProcessRecommendation(q, index, outcome, bucket) ==
    LET rec == q.recs[index + 1]
        type == rec.recommendation_type
        score == ScoreById(q.scores, rec.id)
        audit_id == <<q.execution_id, index>>
        required_permissions == REQUIRED_PERMISSIONS(type)
        missing_permissions == MissingPermissions(required_permissions, q.granted)
        captured == CapturePreChangeState(rec)
        answer == S3Answer(bucket, rec, outcome)
        done == ExecuteAction(bucket, rec, answer)
        pre_state == [captured EXCEPT !.existing_lifecycle_rules =
                                          done.existing_lifecycle_rules]
    IN  IF BeyondMaxActions(index, q.request.max_actions) THEN
            [counter |-> "skipped", live |-> FALSE, answer |-> "ok", bucket |-> bucket,
             result |-> Result(audit_id, rec, score, "skipped", "max_actions",
                               TRUE, << >>, << >>, q.dry_run, captured, {})]
        ELSE IF score = {} THEN
            [counter |-> "failed", live |-> FALSE, answer |-> "ok", bucket |-> bucket,
             result |-> Result(audit_id, rec, {}, "failed", "missing_score",
                               FALSE, << >>, << >>, q.dry_run, captured, {})]
        ELSE IF ~IsModeEligible(q.mode, CHOOSE s \in score : TRUE) THEN
            [counter |-> "skipped", live |-> FALSE, answer |-> "ok", bucket |-> bucket,
             result |-> Result(audit_id, rec, score, "skipped", "mode_policy",
                               TRUE, << >>, << >>, q.dry_run, captured, {})]
        ELSE IF DestructiveBlocked(type, q.allow_destructive) THEN
            [counter |-> "blocked", live |-> FALSE, answer |-> "ok", bucket |-> bucket,
             result |-> Result(audit_id, rec, score, "blocked", "destructive",
                               FALSE, required_permissions, missing_permissions,
                               q.dry_run, captured, {})]
        ELSE IF missing_permissions # << >> THEN
            [counter |-> "blocked", live |-> FALSE, answer |-> "ok", bucket |-> bucket,
             result |-> Result(audit_id, rec, score, "blocked", "permissions",
                               FALSE, required_permissions, missing_permissions,
                               q.dry_run, captured, {})]
        ELSE IF q.dry_run THEN
            [counter |-> "executed", live |-> FALSE, answer |-> "ok", bucket |-> bucket,
             result |-> Result(audit_id, rec, score, "dry_run", "dry_run",
                               TRUE, required_permissions, << >>, TRUE, captured,
                               {CapturePostChangeState(rec, TRUE)})]
        ELSE IF done.success THEN
            [counter |-> "executed", live |-> TRUE, answer |-> answer, bucket |-> done.bucket,
             result |-> Result(audit_id, rec, score, "executed", "done",
                               TRUE, required_permissions, << >>, FALSE, pre_state,
                               {CapturePostChangeState(rec, FALSE)})]
        ELSE
            [counter |-> "failed", live |-> TRUE, answer |-> answer, bucket |-> bucket,
             result |-> Result(audit_id, rec, score, "failed", "s3_error",
                               TRUE, required_permissions, << >>, FALSE, pre_state, {})]

\* A counter incremented before the mode gate.
PassedGatesBeforeModeGate(q, index) ==
    LET rec == q.recs[index + 1]
        score == ScoreById(q.scores, rec.id)
    IN  /\ ~BeyondMaxActions(index, q.request.max_actions)
        /\ score # {}

\* Whether the recommendation at index passed the mode gate (eligible += 1).
PassedGates(q, index) ==
    LET rec == q.recs[index + 1]
        score == ScoreById(q.scores, rec.id)
    IN  /\ ~BeyondMaxActions(index, q.request.max_actions)
        /\ score # {}
        /\ IsModeEligible(q.mode, CHOOSE s \in score : TRUE)

(***************************************************************************)
(* Execute requests.  exe[w] is the request worker w is serving:           *)
(*   pc             idle, loop (inside ExecutionService.execute),          *)
(*                  returned (the ExecuteResponse is built), write (inside *)
(*                  set_execution, lock held), done (200), error (500),    *)
(*                  not_found (404), conflict (409)                        *)
(*   request        [run_id, mode, dry_run, max_actions]                   *)
(*   recs, scores   the arguments of execute                               *)
(*   granted, allow_destructive    the environment read at lines 61-62     *)
(*   execution_id, mode, dry_run and the loop's locals                     *)
(***************************************************************************)
Workers == {1, 2}

NoRequest == [run_id |-> 0, mode |-> "dry_run", dry_run |-> None, max_actions |-> 1]

IdleExe ==
    [pc |-> "idle", request |-> NoRequest, recs |-> << >>, scores |-> << >>,
     granted |-> {}, allow_destructive |-> FALSE,
     execution_id |-> 0, mode |-> "dry_run", dry_run |-> TRUE,
     action_results |-> << >>,
     eligible |-> 0, executed |-> 0, skipped |-> 0, blocked |-> 0, failed |-> 0]

\* Lines 57-69 of execute: the state on entry to the loop.
EnterExecute(request, recs, scores, granted, allow_destructive, execution_id) ==
    [pc |-> "loop", request |-> request, recs |-> recs, scores |-> scores,
     granted |-> granted, allow_destructive |-> allow_destructive,
     execution_id |-> execution_id,
     mode |-> ResolveMode(request.mode, request.dry_run)[1],
     dry_run |-> ResolveMode(request.mode, request.dry_run)[2],
     action_results |-> << >>,
     eligible |-> 0, executed |-> 0, skipped |-> 0, blocked |-> 0, failed |-> 0]

\* An ExecuteResponse whose failed counter is not reported.
ResponseWithoutFailed(q) ==
    [execution_id |-> q.execution_id, run_id |-> q.request.run_id,
     status |-> "executed", mode |-> q.mode, dry_run |-> q.dry_run,
     eligible |-> q.eligible, executed |-> q.executed, skipped |-> q.skipped,
     blocked |-> q.blocked, failed |-> 0,
     action_results |-> q.action_results]

\* The ExecuteResponse of lines 230-243.
Response(q) ==
    [execution_id |-> q.execution_id, run_id |-> q.request.run_id,
     status |-> "executed", mode |-> q.mode, dry_run |-> q.dry_run,
     eligible |-> q.eligible, executed |-> q.executed, skipped |-> q.skipped,
     blocked |-> q.blocked, failed |-> q.failed,
     action_results |-> q.action_results]

\* One iteration of the loop of execute (lines 71-228) on the locals q and a
\* bucket, the S3 client free to answer outcome: the locals and the bucket
\* afterwards, and the mutating calls.
LoopBody(q, outcome, bucket) ==
    LET index == Len(q.action_results)
        p == ProcessRecommendation(q, index, outcome, bucket)
    IN  [q |-> [q EXCEPT
                  !.action_results = Append(@, p.result),
                  !.eligible = IF PassedGates(q, index) THEN @ + 1 ELSE @,
                  !.executed = IF p.counter = "executed" THEN @ + 1 ELSE @,
                  !.skipped = IF p.counter = "skipped" THEN @ + 1 ELSE @,
                  !.blocked = IF p.counter = "blocked" THEN @ + 1 ELSE @,
                  !.failed = IF p.counter = "failed" THEN @ + 1 ELSE @],
         live |-> p.live,
         bucket |-> p.bucket,
         calls |-> IF p.live
                   THEN ExecuteActionCalls(q.execution_id, index, q.recs[index + 1], p.answer)
                   ELSE {}]

\* One iteration of the loop by worker w.
ExecuteStep(w) ==
    /\ exe[w].pc = "loop"
    /\ Len(exe[w].action_results) < Len(exe[w].recs)
    /\ \E outcome \in AdapterOutcomes(exe[w].recs[Len(exe[w].action_results) + 1].recommendation_type) :
         LET b == LoopBody(exe[w], outcome, s3)
         IN  /\ b.live \/ outcome = "ok"
             /\ exe' = [exe EXCEPT ![w] = b.q]
             /\ adapterLog' = adapterLog \cup b.calls
             /\ s3' = b.bucket
    /\ UNCHANGED <<storeVars, env, otherVars, nextExec, rb>>

\* The end of the loop: execute returns the ExecuteResponse.
ExecuteReturn(w) ==
    /\ exe[w].pc = "loop"
    /\ Len(exe[w].action_results) = Len(exe[w].recs)
    /\ exe' = [exe EXCEPT ![w].pc = "returned"]
    /\ UNCHANGED <<storeVars, env, otherVars, nextExec, rb, adapterLog, s3>>

(***************************************************************************)
(* ScoringService (scoring/service.py): the factor scores and the two      *)
(* decisions the executor reads.  Of a recommendation the scorer reads     *)
(* recommendation_type, size_mib (its size in MiB), age_days (the whole    *)
(* days from last_modified to the day the recommendation was made, as a    *)
(* set of at most one number; empty: last_modified is None) and keyword    *)
(* (whether its reason holds one of "infrequent", "cold", "stale").  The   *)
(* pipeline scores on the day of the scan; Aged gives what a later day     *)
(* sees.                                                                   *)
(***************************************************************************)
REVERSIBILITY_SCORES(type) ==
    CASE type = "change_storage_class" -> 90
      [] type = "add_lifecycle_policy" -> 100
      [] type = "delete_incomplete_upload" -> 100
      [] type = "delete_stale_object" -> 0
      [] OTHER -> 50

DataLossRisk(rec) ==
    IF rec.recommendation_type = "delete_stale_object" THEN 100
    ELSE IF rec.recommendation_type = "delete_incomplete_upload" THEN 10
    ELSE IF rec.recommendation_type = "change_storage_class" THEN 5
    ELSE 0

AgeConfidence(rec) ==
    IF rec.age_days = {} THEN 35
    ELSE LET days_old == CHOOSE d \in rec.age_days : TRUE
         IN  IF days_old >= 365 THEN 95
             ELSE IF days_old >= 180 THEN 80
             ELSE IF days_old >= 90 THEN 65
             ELSE IF days_old >= 30 THEN 45
             ELSE 25

\* size_gb = size_bytes / 1024 ** 3, for a size of whole MiB: size_gb >= 0.1
\* exactly when the size is at least 103 MiB.
SizeImpact(rec) ==
    IF rec.size_mib >= 100 * 1024 THEN 100
    ELSE IF rec.size_mib >= 10 * 1024 THEN 80
    ELSE IF rec.size_mib >= 1024 THEN 60
    ELSE IF rec.size_mib >= 103 THEN 35
    ELSE 15

Min(a, b) == IF a <= b THEN a ELSE b
Max(a, b) == IF a >= b THEN a ELSE b

AccessConfidence(rec) ==
    LET base == IF rec.age_days # {} THEN 50 ELSE 35
    IN  Min(100, IF rec.keyword THEN base + 10 ELSE base)

\* round(n / d) of Python 3 for n >= 0, d > 0: to the nearest integer, a tie
\* to the even one.
RoundDiv(n, d) ==
    LET quot == n \div d
        twice == 2 * (n % d)
    IN  IF twice < d THEN quot
        ELSE IF twice > d THEN quot + 1
        ELSE IF quot % 2 = 0 THEN quot ELSE quot + 1

\* _calculate_weighted_risk, with WEIGHTS 30, 25, 20, 15, 10.
WeightedRisk(rec) ==
    Max(0, Min(100, RoundDiv(
        (100 - REVERSIBILITY_SCORES(rec.recommendation_type)) * 30
        + DataLossRisk(rec) * 25
        + (100 - AgeConfidence(rec)) * 20
        + SizeImpact(rec) * 15
        + (100 - AccessConfidence(rec)) * 10, 100)))

\* _calculate_confidence
Confidence(rec) ==
    Max(0, Min(100, RoundDiv(
        REVERSIBILITY_SCORES(rec.recommendation_type) + AgeConfidence(rec)
        + AccessConfidence(rec), 3)))

\* A RiskScore that requires approval for large objects only.
ScoreOfBySizeOnly(rec) ==
    [recommendation_id |-> rec.id,
     risk_score |-> WeightedRisk(rec),
     confidence_score |-> Confidence(rec),
     requires_approval |-> rec.size_mib >= 10 * 1024,
     safe_to_automate |->
        /\ WeightedRisk(rec) < 30
        /\ Confidence(rec) >= 70
        /\ rec.recommendation_type # "delete_stale_object"]

\* The RiskScore of one recommendation (lines 69-101).
ScoreOf(rec) ==
    [recommendation_id |-> rec.id,
     risk_score |-> WeightedRisk(rec),
     confidence_score |-> Confidence(rec),
     requires_approval |->
        \/ WeightedRisk(rec) >= 55
        \/ rec.recommendation_type = "delete_stale_object"
        \/ rec.size_mib >= 10 * 1024,
     safe_to_automate |->
        /\ WeightedRisk(rec) < 30
        /\ Confidence(rec) >= 70
        /\ rec.recommendation_type # "delete_stale_object"]

\* ScoringService.score: one score per recommendation, in order.
ScoringScore(recs) == [i \in DOMAIN recs |-> ScoreOf(recs[i])]

\* The recommendations as a call of score made days later reads them:
\* days_old = (now - last_modified).days (lines 226-227).
Aged(recs, days) ==
    [i \in DOMAIN recs |-> [recs[i] EXCEPT !.age_days = {d + days : d \in @}]]

(***************************************************************************)
(* RunStore (state/store.py).  A row of runs is [status, recommendations,  *)
(* scores, execution, created_at, updated_at]; run ids are 1, 2, ... in    *)
(* the order of creation, so the table is a sequence.  A row of            *)
(* execution_audit is keyed by its audit_id.                               *)
(***************************************************************************)
EmptyTable == [x \in {} |-> x]

NoTxn == [open |-> FALSE, raised |-> FALSE, runs |-> << >>, audit |-> EmptyTable]

\* datetime.now(timezone.utc)
Now == clock + 1

\* The record create inserts (lines 45-80).
CreateRow(recommendations, now) ==
    [status |-> "scanned", recommendations |-> recommendations, scores |-> << >>,
     execution |-> {}, created_at |-> now, updated_at |-> now]

\* The UPDATE of set_scores (lines 136-161).
SetScoresRow(row, scores, now) ==
    [row EXCEPT !.scores = scores, !.status = "scored", !.updated_at = now]

\* The UPDATE of set_execution (lines 169-188).
SetExecutionRow(row, execution, now) ==
    [row EXCEPT !.execution = {execution}, !.status = "executed", !.updated_at = now]

\* The row _insert_execution_audit writes for one action (lines 418-440).
AuditRow(run_id, execution_id, action, now) ==
    [audit_id |-> action.audit_id,
     execution_id |-> execution_id,
     run_id |-> run_id,
     recommendation_id |-> action.recommendation_id,
     recommendation_type |-> action.recommendation_type,
     action_status |-> action.status,
     message |-> action.message,
     requires_approval |-> action.requires_approval,
     permitted |-> action.permitted,
     required_permissions |-> action.required_permissions,
     missing_permissions |-> action.missing_permissions,
     simulated |-> action.simulated,
     pre_change_state |-> action.pre_change_state,
     post_change_state |-> action.post_change_state,
     rollback_available |-> action.rollback_available,
     rollback_status |-> action.rollback_status,
     rolled_back_at |-> {},
     created_at |-> now]

\* An insert that empties the table first.
InsertIntoEmptied(table, row) == [id \in {row.audit_id} |-> row]

\* INSERT OR REPLACE INTO execution_audit
Upsert(table, row) ==
    [id \in DOMAIN table \cup {row.audit_id} |->
        IF id = row.audit_id THEN row ELSE table[id]]

\* _insert_execution_audit, up to and including its first count statements.
RECURSIVE InsertExecutionAudit(_, _, _, _, _, _)
InsertExecutionAudit(table, run_id, execution_id, action_results, now, count) ==
    IF count = 0 THEN table
    ELSE Upsert(InsertExecutionAudit(table, run_id, execution_id, action_results, now, count - 1),
                AuditRow(run_id, execution_id, action_results[count], now))

\* An exit that keeps what the statements wrote, as a connection in
\* autocommit mode does.
ConnectionExitKeeping(committed, staged, raised) == staged

\* The exit of "with self._connect() as conn": the transaction is committed,
\* or rolled back when the block raised.
ConnectionExit(committed, staged, raised) ==
    IF raised THEN committed ELSE staged

\* An UPDATE that also rewrites action_status.
UpdateRollbackRowAndStatus(row, rollback_status, message, now) ==
    [row EXCEPT !.rollback_status = rollback_status,
                !.action_status = rollback_status,
                !.rolled_back_at = {now}]

\* An UPDATE that stamps rolled_back_at whatever the status.
UpdateRollbackRowAlwaysStamped(row, rollback_status, message, now) ==
    [row EXCEPT
       !.rollback_status = rollback_status,
       !.rolled_back_at = {now},
       !.message = IF message = {} THEN @ ELSE CHOOSE m \in message : TRUE]

\* The UPDATE of update_rollback_status (lines 254-269); rolled_back_at and
\* message are COALESCEd, a NULL being the empty set.
UpdateRollbackRow(row, rollback_status, message, now) ==
    [row EXCEPT
       !.rollback_status = rollback_status,
       !.rolled_back_at = IF rollback_status = "rolled_back" THEN {now} ELSE @,
       !.message = IF message = {} THEN @ ELSE CHOOSE m \in message : TRUE]

(***************************************************************************)
(* Rollback requests.  rb is the request being served:                     *)
(*   pc       idle, loop (inside RollbackService.rollback), update (the    *)
(*            loop of the route over the results), done (200),             *)
(*            not_found (404), conflict (409)                              *)
(*   request  [run_id, execution_id, audit_ids, dry_run]; execution_id 0   *)
(*            is None                                                      *)
(*   audit_records, results, attempted, rolled_back, skipped, failed       *)
(*            the argument and the locals of RollbackService.rollback; the *)
(*            results and the counters stay as the RollbackResponse        *)
(***************************************************************************)
NoRollback == [run_id |-> 0, execution_id |-> 0, dry_run |-> TRUE]

IdleRb ==
    [pc |-> "idle", request |-> NoRollback, execution_id |-> 0,
     audit_records |-> << >>, results |-> << >>, next |-> 1,
     attempted |-> 0, rolled_back |-> 0, skipped |-> 0, failed |-> 0]

\* No RunStore method has been called directly.
NoCall == [method |-> "none", run_id |-> 0, value |-> {}, raised |-> FALSE]

\* No Executor and no RollbackManager of src/executor is running.
IdleLx == [pc |-> "idle"]
IdleLr == [pc |-> "idle"]

(***************************************************************************)
(* Direct calls of ExecutionService.execute, as the unit tests make them:  *)
(* any request, any list of at most MaxRecs recommendations, any score (or *)
(* none) for each of them, and any environment.                            *)
(***************************************************************************)
\* The scores a caller may pass for a recommendation: none, or one with any
\* values of the two flags the executor reads.
ScoreChoices == {"missing", "safe", "neutral", "approval", "both"}

MkScore(id, choice) ==
    [recommendation_id |-> id,
     requires_approval |-> choice \in {"approval", "both"},
     safe_to_automate |-> choice \in {"safe", "both"}]

ScoresFrom(choices) ==
    LET all == [i \in DOMAIN choices |-> <<i, choices[i]>>]
        kept == SelectSeq(all, LAMBDA x : x[2] # "missing")
    IN  [j \in DOMAIN kept |-> MkScore(kept[j][1], kept[j][2])]

\* The requests a caller may make.
Requests ==
    [run_id : {1}, mode : ExecutionMode, dry_run : {"true", "false", None},
     max_actions : {1, MaxRecs}]

\* The recommendation of a type, as the scanner writes it for FullBucket.
RecOfType(type) ==
    LET found == ScanBucket(FullBucket)
    IN  found[CHOOSE i \in DOMAIN found : found[i].recommendation_type = type]

RecLists ==
    UNION {[1..n -> {RecOfType(type) : type \in RecommendationType}] : n \in 1..MaxRecs}

\* Recommendation ids are unique within a list.
WithIds(list) == [i \in DOMAIN list |-> [list[i] EXCEPT !.id = i]]

\* A call svc.execute(request, recs, scores) under an environment has been
\* entered.
InitExec ==
    /\ runs = << >>
    /\ audit = EmptyTable
    /\ clock = 0
    /\ lock = 0
    /\ txn = NoTxn
    /\ nextExec = 1
    /\ rb = IdleRb
    /\ adapterLog = {}
    /\ s3 = FullBucket
    /\ ret = NoCall
    /\ lx = IdleLx
    /\ lr = IdleLr
    /\ env \in Environments
    /\ \E request \in Requests, list \in RecLists :
       \E choices \in [DOMAIN list -> ScoreChoices] :
          exe = [w \in Workers |->
                   IF w = 1
                   THEN EnterExecute(request, WithIds(list), ScoresFrom(choices),
                                     env.granted, env.allow_destructive, 1)
                   ELSE IdleExe]

NextExec ==
    \/ ExecuteStep(1)
    \/ ExecuteReturn(1)

SpecExec == InitExec /\ [][NextExec]_vars

(***************************************************************************)
(* The server: the routes of api/routes/optimizer.py over one RunStore,    *)
(* one ScoringService and one ExecutionService, serving requests on the    *)
(* threads of Workers.                                                     *)
(***************************************************************************)
\* ExecuteRequest.max_actions when the request does not give it.
DefaultMaxActions == 100

\* What ScannerService.scan can report for the one bucket of the account.
ScanResults == {ScanBucket(bucket) : bucket \in BucketStates}

\* The environments the server is run under: the defaults, and deletes
\* allowed with every permission granted.
ServerEnvironments ==
    {[granted |-> DefaultGranted, allow_destructive |-> FALSE],
     [granted |-> DefaultGranted \cup {"s3:DeleteObject"}, allow_destructive |-> TRUE]}

\* The Execute requests the model sends: the default mode DRY_RUN or FULL, no
\* dry_run override, the default max_actions.
ExecuteRequests ==
    [run_id : 1..MaxRuns, mode : {"dry_run", "full"}, dry_run : {None},
     max_actions : {DefaultMaxActions}]

\* The server has started on an empty database.
Init ==
    /\ runs = << >>
    /\ audit = EmptyTable
    /\ clock = 0
    /\ lock = 0
    /\ txn = NoTxn
    /\ env \in ServerEnvironments
    /\ nextExec = 1
    /\ exe = [w \in Workers |-> IdleExe]
    /\ rb = IdleRb
    /\ adapterLog = {}
    /\ s3 \in BucketStates
    /\ ret = NoCall
    /\ lx = IdleLx
    /\ lr = IdleLr

\* POST /scan: the scanner's findings become a new run (RunStore.create).
Scan ==
    /\ lock = 0
    /\ Len(runs) < MaxRuns
    /\ clock < MaxClock
    /\ runs' = Append(runs, CreateRow(WithIds(ScanBucket(s3)), Now))
    /\ clock' = Now
    /\ UNCHANGED <<audit, lock, txn, env, otherVars, nextExec, exe, rb, adapterLog, s3>>

\* POST /score for an existing run: get, ScoringService.score, set_scores.
Score(run_id) ==
    /\ lock = 0
    /\ run_id \in DOMAIN runs
    /\ clock < MaxClock
    /\ runs' = [runs EXCEPT ![run_id] =
                   SetScoresRow(@, ScoringScore(@.recommendations), Now)]
    /\ clock' = Now
    /\ UNCHANGED <<audit, lock, txn, env, otherVars, nextExec, exe, rb, adapterLog, s3>>

\* A thread that has answered a request: the locals of the handler are gone,
\* the status answered is remembered.
Answered(pc) == [IdleExe EXCEPT !.pc = pc]

\* Thread w is serving no request: it has none yet, or has answered its last.
Free(w) == exe[w].pc \in {"idle", "done", "error", "not_found", "conflict"}

\* No Rollback request is being served.
RollbackFree == rb.pc \in {"idle", "done", "not_found", "conflict"}

\* ExecutionService.execute from the entry of its loop to its return, on a
\* bucket, the S3 client free to answer outcomes[i] for the i-th
\* recommendation: the locals at the return, the mutating calls made and the
\* bucket afterwards.
RECURSIVE RunLoop(_, _, _, _)
RunLoop(q, outcomes, calls, bucket) ==
    IF Len(q.action_results) = Len(q.recs)
    THEN [q |-> [q EXCEPT !.pc = "returned"], calls |-> calls, bucket |-> bucket]
    ELSE LET b == LoopBody(q, outcomes[Len(q.action_results) + 1], bucket)
         IN  RunLoop(b.q, outcomes, calls \cup b.calls, b.bucket)

\* The answers the S3 client can give during a call of execute: one of
\* AdapterOutcomes for each action that is executed live, and none ("ok"
\* stands for it) for the others.
OutcomeChoices(q) ==
    {outcomes \in [DOMAIN q.recs -> {"ok", "get_error", "error"}] :
        \A i \in DOMAIN q.recs :
            \/ outcomes[i] = "ok"
            \/ /\ outcomes[i] \in AdapterOutcomes(q.recs[i].recommendation_type)
               /\ ProcessRecommendation(q, i - 1, "ok", FullBucket).live}

\* A route that does not look at the scores of the run.
ExecuteUnscored(w, request) ==
    /\ Free(w)
    /\ \A v \in Workers : v < w => ~Free(v)
    /\ nextExec <= MaxExecs
    /\ IF request.run_id \notin DOMAIN runs
       THEN /\ exe' = [exe EXCEPT ![w] = Answered("not_found")]
            /\ UNCHANGED <<nextExec, adapterLog, s3>>
       ELSE LET q == EnterExecute(request, runs[request.run_id].recommendations,
                                  runs[request.run_id].scores,
                                  env.granted, env.allow_destructive, nextExec)
            IN  \E outcomes \in OutcomeChoices(q) :
                   LET done == RunLoop(q, outcomes, {}, s3)
                   IN  /\ exe' = [exe EXCEPT ![w] = done.q]
                       /\ adapterLog' = adapterLog \cup done.calls
                       /\ s3' = done.bucket
                       /\ nextExec' = nextExec + 1
    /\ UNCHANGED <<storeVars, env, otherVars, rb>>

\* POST /execute, handed to the first free thread: lines 82-95 of the route.
\* 404, 409, or ExecutionService.execute runs under a fresh execution id and
\* returns its response.
Execute(w, request) ==
    /\ Free(w)
    /\ \A v \in Workers : v < w => ~Free(v)
    /\ nextExec <= MaxExecs
    /\ IF request.run_id \notin DOMAIN runs
       THEN /\ exe' = [exe EXCEPT ![w] = Answered("not_found")]
            /\ UNCHANGED <<nextExec, adapterLog, s3>>
       ELSE IF runs[request.run_id].scores = << >>
       THEN /\ exe' = [exe EXCEPT ![w] = Answered("conflict")]
            /\ UNCHANGED <<nextExec, adapterLog, s3>>
       ELSE LET q == EnterExecute(request, runs[request.run_id].recommendations,
                                  runs[request.run_id].scores,
                                  env.granted, env.allow_destructive, nextExec)
            IN  \E outcomes \in OutcomeChoices(q) :
                   LET done == RunLoop(q, outcomes, {}, s3)
                   IN  /\ exe' = [exe EXCEPT ![w] = done.q]
                       /\ adapterLog' = adapterLog \cup done.calls
                       /\ s3' = done.bucket
                       /\ nextExec' = nextExec + 1
    /\ UNCHANGED <<storeVars, env, otherVars, rb>>

\* The statements of the transaction of set_execution, in order: the UPDATE
\* of the run row, then one INSERT per action result.  What is staged after
\* the first count of them.
StageSetExecution(run_id, execution, now, count) ==
    [runs |-> IF count = 0 THEN runs
              ELSE [runs EXCEPT ![run_id] = SetExecutionRow(@, execution, now)],
     audit |-> IF count = 0 THEN audit
               ELSE InsertExecutionAudit(audit, run_id, execution.execution_id,
                                         execution.action_results, now, count - 1)]

\* set_execution up to the end of the with block: the lock is taken, the
\* record read, and the statements run inside one transaction until they are
\* all done or one of them raises.
SetExecutionBegin(w) ==
    /\ exe[w].pc = "returned"
    /\ lock = 0
    /\ clock < MaxClock
    /\ lock' = w
    /\ clock' = Now
    /\ \E count \in 0..(Len(exe[w].action_results) + 1) :
          LET staged == StageSetExecution(exe[w].request.run_id, Response(exe[w]), Now, count)
          IN  txn' = [open |-> TRUE,
                      raised |-> count < Len(exe[w].action_results) + 1,
                      runs |-> staged.runs, audit |-> staged.audit]
    /\ exe' = [exe EXCEPT ![w].pc = "write"]
    /\ UNCHANGED <<runs, audit, env, otherVars, nextExec, rb, adapterLog, s3>>

\* The exits of the with blocks of set_execution: the transaction ends, the
\* lock is released, and the route answers 200 or the error propagates.
SetExecutionEnd(w) ==
    /\ exe[w].pc = "write"
    /\ lock = w
    /\ runs' = ConnectionExit(runs, txn.runs, txn.raised)
    /\ audit' = ConnectionExit(audit, txn.audit, txn.raised)
    /\ txn' = NoTxn
    /\ lock' = 0
    /\ exe' = [exe EXCEPT ![w] =
                  Answered(IF txn.raised THEN "error" ELSE "done")]
    /\ UNCHANGED <<clock, env, otherVars, nextExec, rb, adapterLog, s3>>

(***************************************************************************)
(* POST /rollback: RunStore.list_execution_audit, RollbackService.rollback *)
(* (executor/rollback.py) and RunStore.update_rollback_status.             *)
(***************************************************************************)
\* ORDER BY created_at DESC.  The rows of one batch are inserted one after
\* the other, each with its own reading of the clock, so among them the one
\* inserted later comes first.
Before(a, b) ==
    \/ a.created_at > b.created_at
    \/ a.created_at = b.created_at /\ a.audit_id[1] > b.audit_id[1]
    \/ a.created_at = b.created_at /\ a.audit_id[1] = b.audit_id[1]
       /\ a.audit_id[2] > b.audit_id[2]

RECURSIVE Ordered(_)
Ordered(rows) ==
    IF rows = {} THEN << >>
    ELSE LET first == CHOOSE a \in rows : \A b \in rows \ {a} : Before(a, b)
         IN  <<first>> \o Ordered(rows \ {first})

\* request.audit_ids or None (line 127 of the route): a list of audit ids is
\* the set of them, an Optional list a set of at most one list.
AuditIdsOrNone(audit_ids) == IF audit_ids = {} THEN {} ELSE {audit_ids}

\* A list_execution_audit that applies the filter of an empty list.
ListExecutionAuditFilteringEmpty(table, run_id, execution_id, audit_ids) ==
    Ordered({table[id] : id \in
        {id \in DOMAIN table :
            /\ table[id].run_id = run_id
            /\ execution_id # 0 => table[id].execution_id = execution_id
            /\ \A list \in audit_ids : id \in list}})

\* list_execution_audit; execution_id 0 is None; audit_ids is {} (None) or
\* {list}, and "if audit_ids:" holds of a list that is not empty.
ListExecutionAudit(table, run_id, execution_id, audit_ids) ==
    Ordered({table[id] : id \in
        {id \in DOMAIN table :
            /\ table[id].run_id = run_id
            /\ execution_id # 0 => table[id].execution_id = execution_id
            /\ \A list \in audit_ids : list # {} => id \in list}})

\* An eligibility test that looks at the type only.
RollbackEligibleByTypeOnly(record) ==
    record.recommendation_type \in REVERSIBLE_ACTIONS

\* An eligibility test that does not look at action_status.
RollbackEligibleAnyStatus(record) ==
    /\ record.rollback_available
    /\ record.recommendation_type \in REVERSIBLE_ACTIONS

\* _rollback_eligible
RollbackEligible(record) ==
    /\ record.rollback_available
    /\ record.action_status = "executed"
    /\ record.recommendation_type \in REVERSIBLE_ACTIONS

\* _rollback_action: the verb that undoes an action.  For a lifecycle policy
\* it is delete_bucket_lifecycle or put_bucket_lifecycle_configuration,
\* according to the rules the pre-change snapshot holds.
InverseVerb(type) ==
    IF type = "change_storage_class" THEN "copy_object" ELSE "restore_bucket_lifecycle"

\* What the S3 client answers to the call of _rollback_action when it is
\* free to answer outcome: copying an object that does not exist is an error.
S3RollbackAnswer(bucket, record, outcome) ==
    IF /\ outcome = "ok"
       /\ record.recommendation_type = "change_storage_class"
       /\ record.pre_change_state.key \notin DOMAIN bucket.objects
    THEN "error"
    ELSE outcome

\* _rollback_action on a bucket, the S3 client answering answer: whether it
\* succeeded and the bucket afterwards.
RollbackAction(bucket, record, answer) ==
    LET pre == record.pre_change_state
        original_class == IF pre.storage_class = None THEN "STANDARD"
                          ELSE pre.storage_class
    IN  IF answer # "ok" THEN [success |-> FALSE, bucket |-> bucket]
        ELSE IF record.recommendation_type = "change_storage_class" THEN
            [success |-> TRUE,
             bucket |-> [bucket EXCEPT !.objects[pre.key].storage_class = original_class,
                                       !.objects[pre.key].age_days = 0]]
        ELSE IF record.recommendation_type = "add_lifecycle_policy" THEN
            [success |-> TRUE,
             bucket |-> [bucket EXCEPT !.lifecycle = pre.existing_lifecycle_rules]]
        ELSE [success |-> FALSE, bucket |-> bucket]

\* A rollback that acts on a dry run as on a live one.
RollbackRecordIgnoringDryRun(record, dry_run, outcome, bucket) ==
    LET result(status, message) ==
            [audit_id |-> record.audit_id,
             recommendation_id |-> record.recommendation_id,
             recommendation_type |-> record.recommendation_type,
             status |-> status, message |-> message,
             rolled_back |-> (status = "rolled_back")]
        answer == S3RollbackAnswer(bucket, record, outcome)
        done == RollbackAction(bucket, record, answer)
        call == [src |-> "rollback", exec |-> record.execution_id,
                 idx |-> record.audit_id[2], rec |-> record.recommendation_id,
                 verb |-> InverseVerb(record.recommendation_type),
                 ok |-> (answer = "ok")]
    IN  IF ~RollbackEligible(record) THEN
            [counter |-> "skipped", calls |-> {}, live |-> FALSE, bucket |-> bucket,
             result |-> result("skipped", "not_eligible")]
        ELSE IF done.success THEN
            [counter |-> "rolled_back", calls |-> {call}, live |-> TRUE,
             bucket |-> done.bucket,
             result |-> result("rolled_back", "restored")]
        ELSE
            [counter |-> "failed", calls |-> {call}, live |-> TRUE, bucket |-> bucket,
             result |-> result("failed", "s3_error")]

\* The body of the loop of rollback for one audit record, on a bucket, the
\* S3 client free to answer outcome: the result appended, the counter
\* incremented, the calls made and the bucket afterwards.
RollbackRecord(record, dry_run, outcome, bucket) ==
    LET result(status, message) ==
            [audit_id |-> record.audit_id,
             recommendation_id |-> record.recommendation_id,
             recommendation_type |-> record.recommendation_type,
             status |-> status, message |-> message,
             rolled_back |-> (status = "rolled_back")]
        answer == S3RollbackAnswer(bucket, record, outcome)
        done == RollbackAction(bucket, record, answer)
        call == [src |-> "rollback", exec |-> record.execution_id,
                 idx |-> record.audit_id[2], rec |-> record.recommendation_id,
                 verb |-> InverseVerb(record.recommendation_type),
                 ok |-> (answer = "ok")]
    IN  IF ~RollbackEligible(record) THEN
            [counter |-> "skipped", calls |-> {}, live |-> FALSE, bucket |-> bucket,
             result |-> result("skipped", "not_eligible")]
        ELSE IF dry_run THEN
            [counter |-> "none", calls |-> {}, live |-> FALSE, bucket |-> bucket,
             result |-> result("dry_run", "dry_run")]
        ELSE IF done.success THEN
            [counter |-> "rolled_back", calls |-> {call}, live |-> TRUE,
             bucket |-> done.bucket,
             result |-> result("rolled_back", "restored")]
        ELSE
            [counter |-> "failed", calls |-> {call}, live |-> TRUE, bucket |-> bucket,
             result |-> result("failed", "s3_error")]

\* A loop that does not count the records it skips.
RollbackLoopBodyNotCountingSkipped(r, outcome, bucket) ==
    LET index == Len(r.results) + 1
        p == RollbackRecord(r.audit_records[index], r.request.dry_run, outcome, bucket)
    IN  [r |-> [r EXCEPT
                  !.results = Append(@, p.result),
                  !.attempted = @ + 1,
                  !.rolled_back = IF p.counter = "rolled_back" THEN @ + 1 ELSE @,
                  !.failed = IF p.counter = "failed" THEN @ + 1 ELSE @],
         live |-> p.live, calls |-> p.calls, bucket |-> p.bucket]

\* One iteration of the loop of rollback (lines 45-99) on the locals r.
RollbackLoopBody(r, outcome, bucket) ==
    LET index == Len(r.results) + 1
        p == RollbackRecord(r.audit_records[index], r.request.dry_run, outcome, bucket)
    IN  [r |-> [r EXCEPT
                  !.results = Append(@, p.result),
                  !.attempted = @ + 1,
                  !.rolled_back = IF p.counter = "rolled_back" THEN @ + 1 ELSE @,
                  !.skipped = IF p.counter = "skipped" THEN @ + 1 ELSE @,
                  !.failed = IF p.counter = "failed" THEN @ + 1 ELSE @],
         live |-> p.live, calls |-> p.calls, bucket |-> p.bucket]

\* RollbackService.rollback from the entry of its loop to its return.
RECURSIVE RunRollback(_, _, _, _)
RunRollback(r, outcomes, calls, bucket) ==
    IF Len(r.results) = Len(r.audit_records)
    THEN [r |-> r, calls |-> calls, bucket |-> bucket]
    ELSE LET b == RollbackLoopBody(r, outcomes[Len(r.results) + 1], bucket)
         IN  RunRollback(b.r, outcomes, calls \cup b.calls, b.bucket)

\* The answers the S3 client can give during a call of rollback.
RollbackOutcomeChoices(r) ==
    {outcomes \in [DOMAIN r.audit_records -> {"ok", "error"}] :
        \A i \in DOMAIN r.audit_records :
            \/ outcomes[i] = "ok"
            \/ /\ RollbackEligible(r.audit_records[i])
               /\ ~r.request.dry_run}

\* A status_map without the FAILED entry.
StatusMapWithoutFailed(status) ==
    IF status = "rolled_back" THEN {"rolled_back"} ELSE {}

\* status_map.get(item.status) of the route: a set of at most one status.
StatusMap(status) ==
    IF status = "rolled_back" THEN {"rolled_back"}
    ELSE IF status = "failed" THEN {"failed"}
    ELSE {}

\* The first result at or after position next for which the route calls
\* update_rollback_status, or one past the end.
RECURSIVE NextMapped(_, _)
NextMapped(results, next) ==
    IF next > Len(results) \/ StatusMap(results[next].status) # {} THEN next
    ELSE NextMapped(results, next + 1)

\* update_rollback_status: the two tables afterwards.
UpdateRollbackStatus(audit_id, rollback_status, message, now) ==
    IF audit_id \notin DOMAIN audit THEN [runs |-> runs, audit |-> audit]
    ELSE [audit |-> [audit EXCEPT ![audit_id] =
                        UpdateRollbackRow(@, rollback_status, message, now)],
          runs |-> IF audit[audit_id].run_id \in DOMAIN runs
                   THEN [runs EXCEPT ![audit[audit_id].run_id].updated_at = now]
                   ELSE runs]

\* The Rollback requests the model sends: for the run's last batch (no
\* execution_id) or for the first batch ever run, all of its audit records.
RollbackRequests ==
    [run_id : 1..MaxRuns, execution_id : {0, 1}, audit_ids : {{}},
     dry_run : BOOLEAN]

\* The rollback thread has answered with an error status.
RollbackAnswered(pc) == [IdleRb EXCEPT !.pc = pc]

\* The rollback thread has answered with the RollbackResponse: the request,
\* the counters and the results of r.
RollbackResponded(r) == [r EXCEPT !.pc = "done", !.audit_records = << >>, !.next = 1]

\* A route that serves a request that matches no audit record.
RollbackOfNothing(request) ==
    /\ RollbackFree
    /\ IF request.run_id \notin DOMAIN runs
       THEN rb' = RollbackAnswered("not_found") /\ UNCHANGED <<adapterLog, s3>>
       ELSE IF request.execution_id = 0 /\ runs[request.run_id].execution = {}
       THEN rb' = RollbackAnswered("conflict") /\ UNCHANGED <<adapterLog, s3>>
       ELSE LET execution_id ==
                    IF request.execution_id # 0 THEN request.execution_id
                    ELSE (CHOOSE e \in runs[request.run_id].execution : TRUE).execution_id
                audit_records ==
                    ListExecutionAudit(audit, request.run_id, execution_id,
                                       AuditIdsOrNone(request.audit_ids))
                r == [IdleRb EXCEPT !.pc = "update", !.request = request,
                                    !.execution_id = execution_id,
                                    !.audit_records = audit_records]
            IN  IF FALSE
                THEN rb' = RollbackAnswered("not_found") /\ UNCHANGED <<adapterLog, s3>>
                ELSE \E outcomes \in RollbackOutcomeChoices(r) :
                        LET done == RunRollback(r, outcomes, {}, s3)
                        IN  /\ rb' = IF request.dry_run
                                     THEN RollbackResponded(done.r)
                                     ELSE [done.r EXCEPT !.next = NextMapped(done.r.results, 1)]
                            /\ adapterLog' = adapterLog \cup done.calls
                            /\ s3' = done.bucket
    /\ UNCHANGED <<storeVars, env, otherVars, nextExec, exe>>

\* POST /rollback, lines 108-137 of the route: 404, 409, 404, or
\* RollbackService.rollback runs over the audit records read and returns; a
\* dry run is answered at once.
Rollback(request) ==
    /\ RollbackFree
    /\ IF request.run_id \notin DOMAIN runs
       THEN rb' = RollbackAnswered("not_found") /\ UNCHANGED <<adapterLog, s3>>
       ELSE IF request.execution_id = 0 /\ runs[request.run_id].execution = {}
       THEN rb' = RollbackAnswered("conflict") /\ UNCHANGED <<adapterLog, s3>>
       ELSE LET execution_id ==
                    IF request.execution_id # 0 THEN request.execution_id
                    ELSE (CHOOSE e \in runs[request.run_id].execution : TRUE).execution_id
                audit_records ==
                    ListExecutionAudit(audit, request.run_id, execution_id,
                                       AuditIdsOrNone(request.audit_ids))
                r == [IdleRb EXCEPT !.pc = "update", !.request = request,
                                    !.execution_id = execution_id,
                                    !.audit_records = audit_records]
            IN  IF audit_records = << >>
                THEN rb' = RollbackAnswered("not_found") /\ UNCHANGED <<adapterLog, s3>>
                ELSE \E outcomes \in RollbackOutcomeChoices(r) :
                        LET done == RunRollback(r, outcomes, {}, s3)
                        IN  /\ rb' = IF request.dry_run
                                     THEN RollbackResponded(done.r)
                                     ELSE [done.r EXCEPT !.next = NextMapped(done.r.results, 1)]
                            /\ adapterLog' = adapterLog \cup done.calls
                            /\ s3' = done.bucket
    /\ UNCHANGED <<storeVars, env, otherVars, nextExec, exe>>

\* The loop of the route over the results (lines 139-151), up to and
\* including its next call of update_rollback_status.
RollbackUpdate ==
    /\ rb.pc = "update"
    /\ rb.next <= Len(rb.results)
    /\ lock = 0
    /\ clock < MaxClock
    /\ LET item == rb.results[rb.next]
           after == UpdateRollbackStatus(item.audit_id,
                                         CHOOSE m \in StatusMap(item.status) : TRUE,
                                         {item.message}, Now)
       IN  /\ runs' = after.runs
           /\ audit' = after.audit
    /\ clock' = Now
    /\ rb' = [rb EXCEPT !.next = NextMapped(rb.results, rb.next + 1)]
    /\ UNCHANGED <<lock, txn, env, otherVars, nextExec, exe, adapterLog, s3>>

\* The loop is over: the RollbackResponse is returned.
RollbackReturn ==
    /\ rb.pc = "update"
    /\ rb.next > Len(rb.results)
    /\ rb' = RollbackResponded(rb)
    /\ UNCHANGED <<storeVars, env, otherVars, nextExec, exe, adapterLog, s3>>

Next ==
    \/ Scan
    \/ \E run_id \in 1..MaxRuns : Score(run_id)
    \/ \E w \in Workers, request \in ExecuteRequests : Execute(w, request)
    \/ \E w \in Workers : SetExecutionBegin(w)
    \/ \E w \in Workers : SetExecutionEnd(w)
    \/ \E request \in RollbackRequests : Rollback(request)
    \/ RollbackUpdate
    \/ RollbackReturn

Spec == Init /\ [][Next]_vars

(***************************************************************************)
(* Executor.execute of src/executor/executor.py, the command-line          *)
(* executor.  lx is one call of it:                                        *)
(*   pc        idle, loop (inside the for loop, about to turn to           *)
(*             to_execute[next]), done (the ExecutionSummary is returned)  *)
(*   config    [mode, max_failures, max_actions]                           *)
(*   recommendations   the risk score of each, as a kind: none (no score), *)
(*             safe (LOW, safe_to_automate), medium, high                  *)
(*   to_execute, failure_count, errors, executed, successful, failed,      *)
(*   skipped   the locals and attributes of the same names                 *)
(*   records   the records the StateTracker holds for the batch            *)
(***************************************************************************)
ScoreKinds == {"none", "safe", "medium", "high"}

\* _filter_by_mode
FilterByMode(recommendations, mode) ==
    IF mode = "dry_run" THEN recommendations
    ELSE SelectSeq(recommendations, LAMBDA rec :
            CASE mode = "safe" -> rec.score = "safe"
              [] mode = "standard" -> rec.score \in {"safe", "medium"}
              [] mode = "full" -> TRUE)

\* to_execute[:max_actions]
Truncate(list, max_actions) ==
    IF Len(list) > max_actions THEN SubSeq(list, 1, max_actions) ELSE list

\* The error appended when the threshold stops the loop (line 167).
StoppedMarker(max_failures) == <<"Stopped: exceeded", max_failures, "failures">>

\* Lines 140-161 of execute: the state on entry to the loop.
EnterLegacy(config, recommendations) ==
    LET to_execute == Truncate(FilterByMode(recommendations, config.mode), config.max_actions)
    IN  [pc |-> "loop", config |-> config, recommendations |-> recommendations,
         to_execute |-> to_execute, next |-> 1,
         failure_count |-> 0, errors |-> << >>,
         executed |-> 0, successful |-> 0, failed |-> 0,
         skipped |-> Len(recommendations) - Len(to_execute),
         records |-> << >>]

\* What can happen to one action in _execute_single and the sleeps after it:
\* it succeeds, is skipped (validation failed, confirmation declined), fails
\* (the S3 call fails or raises), or an exception escapes before a record is
\* made (raise); after a counted action the sleep may be interrupted
\* (KeyboardInterrupt).  A dry run makes no S3 call, so it does not fail.
SingleOutcomes(mode) ==
    {o \in [result : {"success", "skip", "fail", "raise"}, interrupted : BOOLEAN] :
        /\ o.result = "raise" => ~o.interrupted
        /\ mode = "dry_run" => o.result # "fail"}

\* An action after which a KeyboardInterrupt is noted and the loop goes on.
LegacySingleResuming(x, outcome) ==
    LET rec == x.to_execute[x.next]
        counted == [x EXCEPT
                      !.next = @ + 1,
                      !.executed = @ + 1,
                      !.successful = IF outcome.result # "fail" THEN @ + 1 ELSE @,
                      !.failed = IF outcome.result = "fail" THEN @ + 1 ELSE @,
                      !.failure_count = IF outcome.result = "fail" THEN @ + 1 ELSE @,
                      !.errors = IF outcome.result = "fail"
                                 THEN Append(@, <<"action failed", rec.id>>) ELSE @,
                      !.records = Append(@, [id |-> rec.id, result |-> outcome.result])]
    IN  IF outcome.result = "raise"
        THEN [x EXCEPT !.pc = "done", !.errors = Append(@, <<"Unexpected error">>)]
        ELSE IF outcome.interrupted
        THEN [counted EXCEPT !.errors = Append(@, <<"Execution interrupted by user">>)]
        ELSE counted

\* _execute_single for to_execute[next], the counters and the sleeps after
\* it (lines 170-190).
LegacySingle(x, outcome) ==
    LET rec == x.to_execute[x.next]
        counted == [x EXCEPT
                      !.next = @ + 1,
                      !.executed = @ + 1,
                      !.successful = IF outcome.result # "fail" THEN @ + 1 ELSE @,
                      !.failed = IF outcome.result = "fail" THEN @ + 1 ELSE @,
                      !.failure_count = IF outcome.result = "fail" THEN @ + 1 ELSE @,
                      !.errors = IF outcome.result = "fail"
                                 THEN Append(@, <<"action failed", rec.id>>) ELSE @,
                      !.records = Append(@, [id |-> rec.id, result |-> outcome.result])]
    IN  IF outcome.result = "raise"
        THEN [x EXCEPT !.pc = "done", !.errors = Append(@, <<"Unexpected error">>)]
        ELSE IF outcome.interrupted
        THEN [counted EXCEPT !.pc = "done",
                             !.errors = Append(@, <<"Execution interrupted by user">>)]
        ELSE counted

\* An iteration that does not check the failure threshold.
LegacyLoopUnchecked(x, outcome) == LegacySingle(x, outcome)

\* One iteration of the loop of execute (lines 164-190) on the state x.
LegacyLoop(x, outcome) ==
    IF x.failure_count >= x.config.max_failures
    THEN [x EXCEPT !.pc = "done",
                   !.errors = Append(@, StoppedMarker(x.config.max_failures))]
    ELSE LegacySingle(x, outcome)

\* The configurations and batches the model runs: the default max_failures
\* and smaller ones, the default max_actions and a smaller one, and any
\* list of at most MaxBatch recommendations.
DefaultMaxFailures == 3

LegacyConfigs ==
    [mode : ExecutionMode, max_failures : {1, 2, DefaultMaxFailures},
     max_actions : {2, DefaultMaxActions}]

LegacyBatches ==
    UNION {[1..n -> ScoreKinds] : n \in 0..MaxBatch}

\* Executor(config).execute(recommendations, risk_scores) has been entered.
InitLegacy ==
    /\ runs = << >>
    /\ audit = EmptyTable
    /\ clock = 0
    /\ lock = 0
    /\ txn = NoTxn
    /\ env = [granted |-> DefaultGranted, allow_destructive |-> FALSE]
    /\ nextExec = 1
    /\ exe = [w \in Workers |-> IdleExe]
    /\ rb = IdleRb
    /\ adapterLog = {}
    /\ s3 = FullBucket
    /\ ret = NoCall
    /\ lr = IdleLr
    /\ \E config \in LegacyConfigs, kinds \in LegacyBatches :
          lx = EnterLegacy(config, [i \in DOMAIN kinds |-> [id |-> i, score |-> kinds[i]]])

\* One iteration of the loop.
LegacyStep ==
    /\ lx.pc = "loop"
    /\ lx.next <= Len(lx.to_execute)
    /\ \E outcome \in SingleOutcomes(lx.config.mode) : lx' = LegacyLoop(lx, outcome)
    /\ UNCHANGED <<storeVars, env, nextExec, exe, rb, adapterLog, s3, ret, lr>>

\* The loop is over: lines 192-210.
LegacyReturn ==
    /\ lx.pc = "loop"
    /\ lx.next > Len(lx.to_execute)
    /\ lx' = [lx EXCEPT !.pc = "done"]
    /\ UNCHANGED <<storeVars, env, nextExec, exe, rb, adapterLog, s3, ret, lr>>

NextLegacy ==
    \/ LegacyStep
    \/ LegacyReturn

SpecLegacy == InitLegacy /\ [][NextLegacy]_vars

(***************************************************************************)
(* Direct calls of the methods of one RunStore, one at a time, as          *)
(* tests/unit/test_store.py makes them: for any run id, existing or not.   *)
(* ret is the call made last: [method, run_id, value, raised], value the   *)
(* set of at most one record or boolean returned (empty: None) and raised  *)
(* whether the call raised instead.                                        *)
(***************************************************************************)
\* The run ids a caller passes: those of the runs and one more.
RunIds == 1..(MaxRuns + 1)

\* set_scores: the table runs afterwards and the value returned.
SetScores(run_id, scores, now) ==
    IF run_id \notin DOMAIN runs THEN [runs |-> runs, value |-> {}]
    ELSE [runs |-> [runs EXCEPT ![run_id] = SetScoresRow(@, scores, now)],
          value |-> {SetScoresRow(runs[run_id], scores, now)}]

\* A set_execution that does not look the run up before it writes.
SetExecutionUnchecked(run_id, execution, now, count) ==
    LET raised == count < Len(execution.action_results) + 1
        inserted == InsertExecutionAudit(audit, run_id, execution.execution_id,
                                         execution.action_results, now,
                                         IF count = 0 THEN 0 ELSE count - 1)
    IN  [runs |-> runs,
         audit |-> ConnectionExit(audit, inserted, raised),
         value |-> {}, raised |-> raised]

\* set_execution, its transaction running count statements before it ends:
\* the two tables afterwards, the value returned and whether it raised.
SetExecution(run_id, execution, now, count) ==
    IF run_id \notin DOMAIN runs
    THEN [runs |-> runs, audit |-> audit, value |-> {}, raised |-> FALSE]
    ELSE LET raised == count < Len(execution.action_results) + 1
             staged == StageSetExecution(run_id, execution, now, count)
         IN  [runs |-> ConnectionExit(runs, staged.runs, raised),
              audit |-> ConnectionExit(audit, staged.audit, raised),
              value |-> IF raised THEN {}
                        ELSE {SetExecutionRow(runs[run_id], execution, now)},
              raised |-> raised]

\* The ExecuteResponses a caller passes: what ExecutionService.execute
\* returns for the recommendations of some scan, scored, in mode DRY_RUN or
\* FULL under the default environment, every S3 call succeeding.
StoreExecutions(run_id, execution_id) ==
    {Response(RunLoop(EnterExecute([run_id |-> run_id, mode |-> mode, dry_run |-> None,
                                    max_actions |-> DefaultMaxActions],
                                   WithIds(found), ScoringScore(WithIds(found)),
                                   DefaultGranted, FALSE, execution_id),
                      [i \in DOMAIN found |-> "ok"], {}, FullBucket).q) :
        mode \in {"dry_run", "full"}, found \in ScanResults}

InitStore ==
    /\ runs = << >>
    /\ audit = EmptyTable
    /\ clock = 0
    /\ lock = 0
    /\ txn = NoTxn
    /\ env = [granted |-> DefaultGranted, allow_destructive |-> FALSE]
    /\ nextExec = 1
    /\ exe = [w \in Workers |-> IdleExe]
    /\ rb = IdleRb
    /\ adapterLog = {}
    /\ s3 = FullBucket
    /\ ret = NoCall
    /\ lx = IdleLx
    /\ lr = IdleLr

\* store.create(recommendations)
StoreCreate ==
    /\ Len(runs) < MaxRuns
    /\ clock < MaxClock
    /\ \E found \in ScanResults :
          /\ runs' = Append(runs, CreateRow(WithIds(found), Now))
          /\ ret' = [method |-> "create", run_id |-> Len(runs) + 1,
                     value |-> {CreateRow(WithIds(found), Now)}, raised |-> FALSE]
    /\ clock' = Now
    /\ UNCHANGED <<audit, lock, txn, env, nextExec, exe, rb, adapterLog, s3, lx, lr>>

\* store.set_scores(run_id, scores, ...)
StoreSetScores(run_id) ==
    /\ clock < MaxClock
    /\ LET scores == IF run_id \in DOMAIN runs
                     THEN ScoringScore(runs[run_id].recommendations)
                     ELSE ScoringScore(WithIds(ScanBucket(FullBucket)))
           after == SetScores(run_id, scores, Now)
       IN  /\ runs' = after.runs
           /\ ret' = [method |-> "set_scores", run_id |-> run_id,
                      value |-> after.value, raised |-> FALSE]
    /\ clock' = IF run_id \in DOMAIN runs THEN Now ELSE clock
    /\ UNCHANGED <<audit, lock, txn, env, nextExec, exe, rb, adapterLog, s3, lx, lr>>

\* store.set_execution(run_id, execution)
StoreSetExecution(run_id) ==
    /\ clock < MaxClock
    /\ nextExec <= MaxExecs
    /\ \E execution \in StoreExecutions(run_id, nextExec) :
       \E count \in 0..(Len(execution.action_results) + 1) :
          LET after == SetExecution(run_id, execution, Now, count)
          IN  /\ runs' = after.runs
              /\ audit' = after.audit
              /\ ret' = [method |-> "set_execution", run_id |-> run_id,
                         value |-> after.value, raised |-> after.raised]
    /\ clock' = IF run_id \in DOMAIN runs THEN Now ELSE clock
    /\ nextExec' = nextExec + 1
    /\ UNCHANGED <<lock, txn, env, exe, rb, adapterLog, s3, lx, lr>>

\* store.update_rollback_status(audit_id, rollback_status, message), for the
\* id of a row or another one, with a message or None; ret keeps the
\* arguments of the call.
StoreUpdateRollbackStatus ==
    /\ clock < MaxClock
    /\ \E audit_id \in DOMAIN audit \cup {<<0, 0>>} :
       \E rollback_status \in {"rolled_back", "failed"}, message \in {{}, {"note"}} :
          LET after == UpdateRollbackStatus(audit_id, rollback_status, message, Now)
          IN  /\ runs' = after.runs
              /\ audit' = after.audit
              /\ ret' = [method |-> "update_rollback_status", run_id |-> 0,
                         value |-> {audit_id \in DOMAIN audit}, raised |-> FALSE,
                         audit_id |-> audit_id, rollback_status |-> rollback_status,
                         message |-> message]
    /\ clock' = Now
    /\ UNCHANGED <<lock, txn, env, nextExec, exe, rb, adapterLog, s3, lx, lr>>

NextStore ==
    \/ StoreCreate
    \/ \E run_id \in RunIds : StoreSetScores(run_id)
    \/ \E run_id \in RunIds : StoreSetExecution(run_id)
    \/ StoreUpdateRollbackStatus

SpecStore == InitStore /\ [][NextStore]_vars

(***************************************************************************)
(* Properties of ExecutionService.execute.                                 *)
(***************************************************************************)
\* The calls in flight or answered.
Entered == {w \in Workers : exe[w].pc # "idle"}

\* The mutating calls made for the action at 0-based index of request q.
CallsFor(q, index) ==
    {c \in adapterLog : c.src = "execute" /\ c.exec = q.execution_id /\ c.idx = index}

\* The action at index passes every gate of the loop: max_actions, score,
\* mode, destructive guard, permissions.
PassesEveryGate(q, index) ==
    /\ PassedGates(q, index)
    /\ ~(q.recs[index + 1].recommendation_type = "delete_stale_object"
         /\ ~q.allow_destructive)
    /\ Range(REQUIRED_PERMISSIONS(q.recs[index + 1].recommendation_type)) \subseteq q.granted

\* C3: an execute whose request has mode = DRY_RUN or dry_run = true invokes
\* no mutating adapter verb, and every action of it that passes the gates is
\* recorded with status DRY_RUN and simulated = true.
C3_DryRunNeverMutates ==
    \A w \in Entered :
        LET q == exe[w]
        IN  (q.request.mode = "dry_run" \/ q.request.dry_run = "true") =>
              /\ \A c \in adapterLog : c.exec # q.execution_id
              /\ \A i \in DOMAIN q.action_results :
                    PassesEveryGate(q, i - 1) =>
                       /\ q.action_results[i].status = "dry_run"
                       /\ q.action_results[i].simulated

\* C3 witness: a FULL request with the dry_run override, under an environment
\* that allows everything, has recorded a delete as DRY_RUN.
C3_Witness ==
    /\ exe[1].pc = "returned"
    /\ exe[1].request.mode = "full"
    /\ exe[1].request.dry_run = "true"
    /\ \E i \in DOMAIN exe[1].action_results :
          /\ exe[1].action_results[i].recommendation_type = "delete_stale_object"
          /\ exe[1].action_results[i].status = "dry_run"

\* C4: a DELETE_STALE_OBJECT action that reaches the destructive guard while
\* allow_destructive is off is recorded BLOCKED and no mutation is invoked for
\* it, in every mode and under every set of granted permissions.
C4_DestructiveGuard ==
    \A w \in Entered :
        LET q == exe[w]
        IN  \A i \in DOMAIN q.action_results :
               ( /\ q.recs[i].recommendation_type = "delete_stale_object"
                 /\ PassedGates(q, i - 1)
                 /\ ~q.allow_destructive ) =>
                  /\ q.action_results[i].status = "blocked"
                  /\ CallsFor(q, i - 1) = {}

\* C4 witness: FULL, dry_run = false, s3:DeleteObject granted, and the delete
\* is blocked by the guard.
C4_Witness ==
    /\ exe[1].request.mode = "full"
    /\ exe[1].request.dry_run = "false"
    /\ ~exe[1].allow_destructive
    /\ "s3:DeleteObject" \in exe[1].granted
    /\ \E i \in DOMAIN exe[1].action_results :
          /\ exe[1].action_results[i].recommendation_type = "delete_stale_object"
          /\ exe[1].action_results[i].status = "blocked"
          /\ exe[1].action_results[i].message = "destructive"

CountStatus(E, statuses) ==
    Cardinality({i \in DOMAIN E.action_results : E.action_results[i].status \in statuses})

\* C7: in every ExecuteResponse, executed + skipped + blocked + failed is the
\* number of action results; executed counts the results EXECUTED or DRY_RUN,
\* skipped the SKIPPED, blocked the BLOCKED and failed the FAILED ones.
C7_CountersSum ==
    \A w \in Workers :
        exe[w].pc \in {"returned", "write", "done", "error"} =>
           LET E == Response(exe[w])
           IN  /\ E.executed + E.skipped + E.blocked + E.failed = Len(E.action_results)
               /\ E.executed = CountStatus(E, {"executed", "dry_run"})
               /\ E.skipped = CountStatus(E, {"skipped"})
               /\ E.blocked = CountStatus(E, {"blocked"})
               /\ E.failed = CountStatus(E, {"failed"})

\* C7 witness: a response of two results, one of them failed and one executed.
C7_Witness ==
    /\ exe[1].pc = "returned"
    /\ Response(exe[1]).failed = 1
    /\ Response(exe[1]).executed = 1
    /\ Len(Response(exe[1]).action_results) = 2

\* C13: the response holds exactly one action result per input
\* recommendation, in input order (while the loop runs, one per
\* recommendation it has come to), and the result of a recommendation at
\* index >= max_actions is SKIPPED, whatever its score and the mode.
C13_OneResultPerRecommendation ==
    \A w \in Entered :
       LET q == exe[w]
       IN  /\ Len(q.action_results) <= Len(q.recs)
           /\ q.pc = "returned" =>
                 /\ Len(Response(q).action_results) = Len(q.recs)
                 /\ Response(q).action_results = q.action_results
           /\ \A i \in DOMAIN q.action_results :
                 /\ q.action_results[i].recommendation_id = q.recs[i].id
                 /\ q.action_results[i].recommendation_type = q.recs[i].recommendation_type
                 /\ q.action_results[i].audit_id = <<q.execution_id, i - 1>>
                 /\ i - 1 >= q.request.max_actions =>
                       q.action_results[i].status = "skipped"

\* C13 witness: a response to a request with max_actions = 1 for two
\* recommendations, the second of which has no score.
C13_Witness ==
    /\ exe[1].pc = "returned"
    /\ exe[1].request.max_actions = 1
    /\ Len(exe[1].recs) = 2
    /\ ScoreById(exe[1].scores, exe[1].recs[2].id) = {}
    /\ Response(exe[1]).action_results[2].status = "skipped"
    /\ Response(exe[1]).action_results[1].status = "executed"

(***************************************************************************)
(* Properties of the server.                                               *)
(***************************************************************************)
\* The stages of a run, in order.
StageOf(status) ==
    CASE status = "scanned" -> 1
      [] status = "scored" -> 2
      [] status = "executed" -> 3

\* C1: the status of a run never moves to an earlier stage; once EXECUTED,
\* no later operation, re-scoring included, leaves it SCORED or SCANNED.
C1_StatusNeverMovesBack ==
    [][\A id \in DOMAIN runs :
          StageOf(runs'[id].status) >= StageOf(runs[id].status)]_vars

\* C2: during a live batch every adapter mutation is followed by the audit
\* write for that action before the next action is attempted: whenever a
\* later action of the batch has been mutated, the audit row of the earlier
\* one is in the store.
C2_AuditFollowsEachMutation ==
    \A c \in adapterLog, d \in adapterLog :
        ( /\ c.src = "execute" /\ d.src = "execute"
          /\ c.exec = d.exec /\ c.idx < d.idx ) =>
            <<c.exec, c.idx>> \in DOMAIN audit

\* The link between rollback_available, the status, simulated and the type
\* that C6 states, and the rollback_status that goes with it.
RollbackFieldsAgree(available, status, simulated, type, rollback_status) ==
    /\ available <=>
         ( /\ status = "executed"
           /\ ~simulated
           /\ type \in {"change_storage_class", "add_lifecycle_policy"} )
    /\ rollback_status = IF available THEN "pending" ELSE "not_applicable"

\* C6: for every action result of execute and every audit row persisted from
\* it, rollback_available is true exactly when the action is EXECUTED, not
\* simulated and of type CHANGE_STORAGE_CLASS or ADD_LIFECYCLE_POLICY, and the
\* rollback_status a row is inserted with is PENDING exactly then,
\* NOT_APPLICABLE otherwise.
C6_RollbackAvailability ==
    [][ /\ \A w \in Workers : \A i \in DOMAIN exe'[w].action_results :
              LET r == exe'[w].action_results[i]
              IN  RollbackFieldsAgree(r.rollback_available, r.status, r.simulated,
                                      r.recommendation_type, r.rollback_status)
        /\ \A id \in DOMAIN audit' \ DOMAIN audit :
              LET a == audit'[id]
              IN  RollbackFieldsAgree(a.rollback_available, a.action_status, a.simulated,
                                      a.recommendation_type, a.rollback_status)
        /\ \A id \in DOMAIN audit' :
              LET a == audit'[id]
              IN  RollbackFieldsAgree(a.rollback_available, a.action_status, a.simulated,
                                      a.recommendation_type,
                                      IF a.rollback_available THEN "pending" ELSE "not_applicable")
      ]_vars

\* C6 witness: one batch has persisted the row of a storage-class change that
\* can be rolled back and the row of an upload abort, executed live, that
\* cannot.
C6_Witness ==
    \E a \in DOMAIN audit, b \in DOMAIN audit :
        /\ audit[a].execution_id = audit[b].execution_id
        /\ audit[a].recommendation_type = "change_storage_class"
        /\ audit[a].rollback_available
        /\ audit[a].rollback_status = "pending"
        /\ audit[b].recommendation_type = "delete_incomplete_upload"
        /\ audit[b].action_status = "executed"
        /\ ~audit[b].rollback_available
        /\ audit[b].rollback_status = "not_applicable"

\* C8: an audit row, once inserted, stays in the table and is changed by no
\* step other than update_rollback_status, which changes nothing but its
\* rollback_status, rolled_back_at and message.
C8_AuditRowsImmutable ==
    [][\A id \in DOMAIN audit :
          /\ id \in DOMAIN audit'
          /\ \/ audit'[id] = audit[id]
             \/ /\ RollbackUpdate
                /\ audit'[id] = [audit[id] EXCEPT
                                   !.rollback_status = audit'[id].rollback_status,
                                   !.rolled_back_at = audit'[id].rolled_back_at,
                                   !.message = audit'[id].message]]_vars

\* C8 witness: update_rollback_status has marked a row ROLLED_BACK.
C8_Witness ==
    \E id \in DOMAIN audit :
        /\ audit[id].rollback_status = "rolled_back"
        /\ audit[id].rolled_back_at # {}
        /\ audit[id].message = "restored"
        /\ audit[id].action_status = "executed"

\* The audit rows of batch e.
RowsOf(table, e) == {id \in DOMAIN table : table[id].execution_id = e}

\* The batches that have rows in the table.
Batches(table) == {table[id].execution_id : id \in DOMAIN table}

\* C9: the set_execution writes of two batches of a run are applied one at a
\* time; the run's execution pointer is the batch whose write was applied
\* last; the audit rows of every batch written stay; and the execution ids of
\* two batches differ.
C9_TwoBatches ==
    [][ /\ Cardinality({w \in Workers : exe'[w].pc = "write"}) <= 1
        /\ \A w \in Workers : exe'[w].pc = "write" => lock' = w /\ txn'.open
        /\ \A v \in Workers, w \in Workers :
              (v # w /\ exe'[v].execution_id # 0) =>
                 exe'[v].execution_id # exe'[w].execution_id
        /\ \A w \in Workers :
              exe'[w].pc \in {"returned", "write"} =>
                 RowsOf(audit', exe'[w].execution_id) = {}
        /\ \A id \in DOMAIN runs' : \A E \in runs'[id].execution :
              /\ RowsOf(audit', E.execution_id) # {}
              /\ \A a \in RowsOf(audit', E.execution_id), b \in DOMAIN audit' :
                    audit'[b].run_id = id => audit'[b].created_at <= audit'[a].created_at
        /\ \A e \in Batches(audit) :
              /\ RowsOf(audit', e) = RowsOf(audit, e)
              /\ \A id \in RowsOf(audit, e) :
                    Cardinality(RowsOf(audit, e)) = Len(runs[audit[id].run_id].recommendations)
      ]_vars

\* C9 witness: two concurrent requests on one run; the batch that entered
\* second was written first, the run points at the batch written last, and
\* the rows of both are in the table.
C9_Witness ==
    /\ 1 \in DOMAIN runs
    /\ \E E \in runs[1].execution : E.execution_id = 1
    /\ RowsOf(audit, 1) # {}
    /\ RowsOf(audit, 2) # {}
    /\ \A a \in RowsOf(audit, 1), b \in RowsOf(audit, 2) :
          audit[b].created_at < audit[a].created_at

\* C10: set_execution is all or nothing.  A step either leaves the run row
\* and the rows of a batch as they are, or it persists the whole write: the
\* status, the execution pointer, updated_at and every audit row of the
\* batch.  When a statement of the transaction fails, nothing of it is kept.
C10_SetExecutionAtomic ==
    [][\A w \in Workers :
          exe[w].pc = "write" =>
             LET E == Response(exe[w])
                 id == E.run_id
                 written ==
                    /\ runs'[id].execution = {E}
                    /\ runs'[id].status = "executed"
                    /\ runs'[id].updated_at = clock
                    /\ RowsOf(audit', E.execution_id) =
                          {r.audit_id : r \in Range(E.action_results)}
                 untouched ==
                    /\ runs' = runs
                    /\ audit' = audit
                    /\ RowsOf(audit, E.execution_id) = {}
                    /\ E \notin runs[id].execution
             IN  /\ exe'[w].pc = "done" => written
                 /\ exe'[w].pc = "error" => untouched /\ txn.raised
                 /\ exe'[w].pc = "write" => RowsOf(audit', E.execution_id) = {}
                                            /\ E \notin runs'[id].execution]_vars

\* C10 witness: a set_execution has failed after its batch mutated S3; the
\* run is still SCORED and no row of the batch is in the table.
C10_Witness ==
    \E w \in Workers :
        /\ exe[w].pc = "error"
        /\ \E c \in adapterLog : c.src = "execute" /\ RowsOf(audit, c.exec) = {}
        /\ 1 \in DOMAIN runs
        /\ runs[1].status = "scored"

(***************************************************************************)
(* Direct calls of POST /score on a run of one recommendation of any type, *)
(* size, age and reason, made on day 0; here the clock counts days, and a  *)
(* call is made on any day from the current one on.                        *)
(***************************************************************************)
ScoreInputs ==
    [id : {1}, recommendation_type : RecommendationType,
     key : {"cold"}, storage_class : {"STANDARD"},
     size_mib : {0, 200, 10 * 1024},
     age_days : {{}, {29}, {89}, {179}, {364}, {400}},
     keyword : BOOLEAN]

InitScore ==
    /\ \E rec \in ScoreInputs : runs = << CreateRow(<<rec>>, 0) >>
    /\ audit = EmptyTable
    /\ clock = 0
    /\ lock = 0
    /\ txn = NoTxn
    /\ env = [granted |-> DefaultGranted, allow_destructive |-> FALSE]
    /\ nextExec = 1
    /\ exe = [w \in Workers |-> IdleExe]
    /\ rb = IdleRb
    /\ adapterLog = {}
    /\ s3 = FullBucket
    /\ ret = NoCall
    /\ lx = IdleLx
    /\ lr = IdleLr

\* POST /score for an existing run on a day: get, ScoringService.score,
\* set_scores.
ScoreOnDay(run_id) ==
    /\ lock = 0
    /\ run_id \in DOMAIN runs
    /\ \E day \in clock..MaxClock :
          /\ runs' = [runs EXCEPT ![run_id] =
                         SetScoresRow(@, ScoringScore(Aged(@.recommendations,
                                                           day - @.created_at)), day)]
          /\ clock' = day
    /\ UNCHANGED <<audit, lock, txn, env, otherVars, nextExec, exe, rb, adapterLog, s3>>

NextScore == \E run_id \in 1..MaxRuns : ScoreOnDay(run_id)

SpecScore == InitScore /\ [][NextScore]_vars

(***************************************************************************)
(* POST /scan on an account of several buckets.  Here s3 is the account:   *)
(* a list of [bucket, fault], the bucket and the error code its S3 calls   *)
(* answer with (none: they succeed).  ret is the outcome of the call:      *)
(* value holds the recommendations returned, raised tells that the         *)
(* exception left ScannerService.scan and the route.                       *)
(***************************************************************************)
MaxBuckets == 2

\* No error, the codes every method of the scanner passes over, and a code
\* none of them does.
ScanFaults == {"none", "AccessDenied", "NoSuchBucket", "InternalError"}

\* _scan_bucket on a bucket whose calls answer with fault, as a set of at
\* most one list: empty when the ClientError is raised again (lines 129-131,
\* 157-158, 190-192).
ScanBucketOrRaise(bucket, fault) ==
    IF fault = "none" THEN {ScanBucket(bucket)}
    ELSE IF fault \in {"AccessDenied", "NoSuchBucket"} THEN {<< >>}
    ELSE {}

\* ScannerService.scan over the buckets of the account, in order.
RECURSIVE ScannerScan(_)
ScannerScan(account) ==
    IF account = << >> THEN {<< >>}
    ELSE {first \o rest :
            first \in ScanBucketOrRaise(Head(account).bucket, Head(account).fault),
            rest \in ScannerScan(Tail(account))}

Accounts ==
    UNION {[1..n -> [bucket : BucketStates, fault : ScanFaults]] : n \in 1..MaxBuckets}

InitScan ==
    /\ runs = << >>
    /\ audit = EmptyTable
    /\ clock = 0
    /\ lock = 0
    /\ txn = NoTxn
    /\ env = [granted |-> DefaultGranted, allow_destructive |-> FALSE]
    /\ nextExec = 1
    /\ exe = [w \in Workers |-> IdleExe]
    /\ rb = IdleRb
    /\ adapterLog = {}
    /\ s3 \in Accounts
    /\ ret = NoCall
    /\ lx = IdleLx
    /\ lr = IdleLr

\* POST /scan: ScannerService.scan, then RunStore.create of its findings; an
\* exception of the scanner leaves the route before the run is created.
ScanAccount ==
    /\ lock = 0
    /\ Len(runs) < MaxRuns
    /\ clock < MaxClock
    /\ ret.method = "none"
    /\ IF ScannerScan(s3) = {}
       THEN /\ ret' = [method |-> "scan", run_id |-> 0, value |-> {}, raised |-> TRUE]
            /\ UNCHANGED <<runs, clock>>
       ELSE \E found \in ScannerScan(s3) :
            /\ runs' = Append(runs, CreateRow(WithIds(found), Now))
            /\ clock' = Now
            /\ ret' = [method |-> "scan", run_id |-> Len(runs) + 1,
                       value |-> {WithIds(found)}, raised |-> FALSE]
    /\ UNCHANGED <<audit, lock, txn, env, lx, lr, nextExec, exe, rb, adapterLog, s3>>

SpecScan == InitScan /\ [][ScanAccount]_vars

(***************************************************************************)
(* RollbackManager.rollback_batch of src/executor/rollback.py, the         *)
(* command-line rollback.  lr is one call of it:                           *)
(*   pc       idle, loop (inside the for loop), done (results returned)    *)
(*   records  the ExecutionRecords passed in, each with what rollback      *)
(*            reads: rollback_available, status, success, action_type and  *)
(*            pre_state (whether there is a snapshot)                      *)
(*   stop_on_failure, results   the argument and the local                 *)
(***************************************************************************)
LegacyRecords ==
    [rollback_available : BOOLEAN, status : {"completed", "rolled_back"},
     success : BOOLEAN,
     action_type : {"change_storage_class", "add_lifecycle_policy", "delete_object"},
     pre_state : BOOLEAN]

\* RollbackManager.rollback of the record with an id, the S3 client
\* answering outcome: the RollbackResult, and whether the S3 client was
\* called.
LegacyRollback(id, record, outcome) ==
    LET result(status, called) ==
            [record_id |-> id, status |-> status, success |-> (status = "success"),
             called |-> called]
    IN  IF ~record.rollback_available THEN result("not_available", FALSE)
        ELSE IF record.status = "rolled_back" THEN result("already_rolled_back", FALSE)
        ELSE IF ~record.success THEN result("not_available", FALSE)
        ELSE IF record.action_type \notin {"change_storage_class", "add_lifecycle_policy"}
        THEN result("not_available", FALSE)
        ELSE IF ~record.pre_state THEN result("failed", FALSE)
        ELSE IF outcome = "ok" THEN result("success", TRUE)
        ELSE result("failed", TRUE)

InitLegacyRollback ==
    /\ runs = << >>
    /\ audit = EmptyTable
    /\ clock = 0
    /\ lock = 0
    /\ txn = NoTxn
    /\ env \in Environments
    /\ nextExec = 1
    /\ exe = [w \in Workers |-> IdleExe]
    /\ rb = IdleRb
    /\ adapterLog = {}
    /\ s3 = FullBucket
    /\ ret = NoCall
    /\ lx = IdleLx
    /\ \E stop_on_failure \in BOOLEAN,
          records \in UNION {[1..n -> LegacyRecords] : n \in 1..MaxRecs} :
          lr = [pc |-> "loop", records |-> records,
                stop_on_failure |-> stop_on_failure, results |-> << >>]

\* One iteration of the loop of rollback_batch (lines 322-327); the break
\* leads to the return.
RollbackBatchStep ==
    /\ lr.pc = "loop"
    /\ Len(lr.results) < Len(lr.records)
    /\ \E outcome \in {"ok", "error"} :
          LET id == Len(lr.results) + 1
              result == LegacyRollback(id, lr.records[id], outcome)
          IN  /\ result.called \/ outcome = "ok"
              /\ lr' = [lr EXCEPT
                          !.results = Append(@, [record_id |-> result.record_id,
                                                 status |-> result.status,
                                                 success |-> result.success]),
                          !.pc = IF lr.stop_on_failure /\ ~result.success
                                 THEN "done" ELSE @]
              /\ adapterLog' = adapterLog \cup
                    (IF result.called
                     THEN {[src |-> "rollback_batch", rec |-> id,
                            verb |-> InverseVerb(lr.records[id].action_type),
                            ok |-> result.success]}
                     ELSE {})
    /\ UNCHANGED <<storeVars, env, nextExec, exe, rb, s3, ret, lx>>

\* The loop is over: line 329.
RollbackBatchReturn ==
    /\ lr.pc = "loop"
    /\ Len(lr.results) = Len(lr.records)
    /\ lr' = [lr EXCEPT !.pc = "done"]
    /\ UNCHANGED <<storeVars, env, nextExec, exe, rb, adapterLog, s3, ret, lx>>

NextLegacyRollback == RollbackBatchStep \/ RollbackBatchReturn

SpecLegacyRollback == InitLegacyRollback /\ [][NextLegacyRollback]_vars

(***************************************************************************)
(* Executor.rollback_batch of src/executor/executor.py on a batch that     *)
(* Executor.execute has completed.  Here lr is                             *)
(*   file           batch_<id>.json, the batch as _save_batch wrote it:    *)
(*                  [dry_run, records]                                     *)
(*   current_batch  the StateTracker's current_batch, a set of at most one *)
(*                  batch: the batch executed in the process that ran      *)
(*                  execute, none in a process started since               *)
(*   records        the StateTracker's records (self.records), by id       *)
(*   calls          the number of calls of rollback_batch made             *)
(*   results        what the last call returned                            *)
(* A record's id is its position in the batch.  The S3 client answers ok,  *)
(* error, or absent: a bucket whose lifecycle configuration is to be       *)
(* removed has none, and the handler returns SUCCESS without a mutation.   *)
(***************************************************************************)
MaxRollbacks == 2

\* The record _execute_single leaves for an action of a type in a mode
\* (lines 279-348), pre_state telling whether _capture_state returned a
\* snapshot: in DRY_RUN record_success is called without any S3 mutation.
ExecuteSingleRecord(type, mode, success, pre_state) ==
    [rollback_available |-> type \in {"change_storage_class", "add_lifecycle_policy"},
     status |-> IF mode = "dry_run" \/ success THEN "completed" ELSE "failed",
     success |-> (mode = "dry_run" \/ success),
     action_type |-> type,
     pre_state |-> pre_state]

\* execute has returned and its batch is on disk; rollback_batch is called
\* in the same process or in a new one.
InitCli ==
    /\ runs = << >>
    /\ audit = EmptyTable
    /\ clock = 0
    /\ lock = 0
    /\ txn = NoTxn
    /\ env = [granted |-> DefaultGranted, allow_destructive |-> FALSE]
    /\ nextExec = 1
    /\ exe = [w \in Workers |-> IdleExe]
    /\ rb = IdleRb
    /\ adapterLog = {}
    /\ s3 = FullBucket
    /\ ret = NoCall
    /\ lx = IdleLx
    /\ \E mode \in {"dry_run", "full"}, n \in 1..MaxRecs, same_process \in BOOLEAN :
          \E types \in [1..n -> {"change_storage_class", "add_lifecycle_policy",
                                 "delete_stale_object"}],
             successes \in [1..n -> BOOLEAN], snapshots \in [1..n -> BOOLEAN] :
             LET batch == [dry_run |-> (mode = "dry_run"),
                           records |-> [i \in 1..n |->
                               ExecuteSingleRecord(types[i], mode, successes[i],
                                                   snapshots[i])]]
             IN  /\ mode = "dry_run" => \A i \in 1..n : successes[i]
                 /\ lr = [pc |-> "cli", file |-> batch,
                          current_batch |-> IF same_process THEN {batch} ELSE {},
                          records |-> IF same_process THEN batch.records ELSE << >>,
                          calls |-> 0, results |-> << >>]

\* Executor.rollback_batch(batch_id): load_batch, the candidates,
\* RollbackManager.rollback_batch, and record_rollback for each success,
\* which changes the record load_batch has put in self.records and saves
\* current_batch, if there is one.
ExecutorRollbackBatch ==
    /\ lr.pc = "cli"
    /\ lr.calls < MaxRollbacks
    /\ LET batch == lr.file
           candidates == SelectSeq([i \in DOMAIN batch.records |-> i], LAMBDA i :
                            batch.records[i].rollback_available /\ batch.records[i].success)
       IN  \E outcomes \in [DOMAIN candidates -> {"ok", "error", "absent"}] :
              LET reached(k) ==
                      LegacyRollback(candidates[k], batch.records[candidates[k]], "ok").called
                  result(k) ==
                      IF outcomes[k] = "absent"
                      THEN [LegacyRollback(candidates[k], batch.records[candidates[k]], "ok")
                               EXCEPT !.called = FALSE]
                      ELSE LegacyRollback(candidates[k], batch.records[candidates[k]],
                                          outcomes[k])
                  results == [k \in DOMAIN candidates |-> result(k)]
                  rolled == {results[k].record_id : k \in {j \in DOMAIN candidates :
                                                               results[j].success}}
              IN  /\ \A k \in DOMAIN candidates :
                        /\ outcomes[k] # "ok" => reached(k)
                        /\ outcomes[k] = "absent" =>
                              batch.records[candidates[k]].action_type = "add_lifecycle_policy"
                  /\ lr' = [lr EXCEPT
                              !.calls = @ + 1,
                              !.results = [k \in DOMAIN candidates |->
                                              [record_id |-> results[k].record_id,
                                               status |-> results[k].status,
                                               success |-> results[k].success]],
                              !.records = [i \in DOMAIN batch.records |->
                                              IF i \in rolled
                                              THEN [batch.records[i] EXCEPT
                                                       !.status = "rolled_back"]
                                              ELSE batch.records[i]],
                              !.file = IF rolled # {} /\ lr.current_batch # {}
                                       THEN CHOOSE b \in lr.current_batch : TRUE
                                       ELSE @]
                  /\ adapterLog' = adapterLog \cup
                        {[src |-> "cli_rollback", call |-> lr.calls + 1,
                          rec |-> results[k].record_id,
                          verb |-> InverseVerb(batch.records[candidates[k]].action_type),
                          ok |-> results[k].success] :
                            k \in {j \in DOMAIN candidates : results[j].called}}
    /\ UNCHANGED <<storeVars, env, nextExec, exe, rb, s3, ret, lx>>

\* The process ends and a new one starts: a new Executor, a new
\* StateTracker.
NewProcess ==
    /\ lr.pc = "cli"
    /\ lr.current_batch # {} \/ lr.records # << >>
    /\ lr' = [lr EXCEPT !.current_batch = {}, !.records = << >>]
    /\ UNCHANGED <<storeVars, env, nextExec, exe, rb, adapterLog, s3, ret, lx>>

NextCli == ExecutorRollbackBatch \/ NewProcess

SpecCli == InitCli /\ [][NextCli]_vars

(***************************************************************************)
(* Direct calls of RollbackService.rollback, as the unit tests make them:  *)
(* a request, dry or live, and any list of at most MaxRecs audit records,  *)
(* of any type, any action status and either value of rollback_available   *)
(* (_audit of tests/unit/test_rollback.py), on FullBucket.  rb holds the   *)
(* locals of the call, pc = "loop" while it runs.                          *)
(***************************************************************************)
RollbackInputs ==
    LET records == [recommendation_type : RecommendationType,
                    action_status : ExecutionActionStatus,
                    rollback_available : BOOLEAN]
        asRow(list, i) ==
            [audit_id |-> <<1, i - 1>>, execution_id |-> 1, run_id |-> 1,
             recommendation_id |-> i,
             recommendation_type |-> list[i].recommendation_type,
             action_status |-> list[i].action_status,
             rollback_available |-> list[i].rollback_available,
             rollback_status |-> IF list[i].rollback_available THEN "pending"
                                 ELSE "not_applicable",
             pre_change_state |->
                 CapturePreChangeState(RecOfType(list[i].recommendation_type))]
    IN  {[i \in DOMAIN list |-> asRow(list, i)] :
            list \in UNION {[1..n -> records] : n \in 1..MaxRecs}}

InitRb ==
    /\ runs = << >>
    /\ audit = EmptyTable
    /\ clock = 0
    /\ lock = 0
    /\ txn = NoTxn
    /\ env \in Environments
    /\ nextExec = 1
    /\ exe = [w \in Workers |-> IdleExe]
    /\ adapterLog = {}
    /\ s3 = FullBucket
    /\ ret = NoCall
    /\ lx = IdleLx
    /\ lr = IdleLr
    /\ \E dry_run \in BOOLEAN, audit_records \in RollbackInputs :
          rb = [IdleRb EXCEPT !.pc = "loop",
                              !.request = [run_id |-> 1, execution_id |-> 1,
                                           audit_ids |-> {}, dry_run |-> dry_run],
                              !.execution_id = 1,
                              !.audit_records = audit_records]

\* One iteration of the loop.
RollbackStep ==
    /\ rb.pc = "loop"
    /\ Len(rb.results) < Len(rb.audit_records)
    /\ \E outcome \in {"ok", "error"} :
          LET b == RollbackLoopBody(rb, outcome, s3)
          IN  /\ b.live \/ outcome = "ok"
              /\ rb' = b.r
              /\ adapterLog' = adapterLog \cup b.calls
              /\ s3' = b.bucket
    /\ UNCHANGED <<storeVars, env, otherVars, nextExec, exe>>

\* The end of the loop: rollback returns the RollbackResponse (lines 101-111).
RollbackDone ==
    /\ rb.pc = "loop"
    /\ Len(rb.results) = Len(rb.audit_records)
    /\ rb' = RollbackResponded(rb)
    /\ UNCHANGED <<storeVars, env, otherVars, nextExec, exe, adapterLog, s3>>

NextRb == RollbackStep \/ RollbackDone

SpecRb == InitRb /\ [][NextRb]_vars

(***************************************************************************)
(* Properties of RunStore.                                                 *)
(***************************************************************************)
\* The last call was set_scores or set_execution for a run id that names no
\* run in the given table.
CalledForMissingRun(call, table) ==
    /\ call.method \in {"set_scores", "set_execution"}
    /\ call.run_id \notin DOMAIN table

\* C11: in every store state the run_id of each audit row names a run of
\* the table runs; a call of set_execution or set_scores for a run id that
\* names no run returns None, does not raise, and leaves both tables as they
\* were.
C11_AuditRowsNameARun ==
    /\ [](\A id \in DOMAIN audit : audit[id].run_id \in DOMAIN runs)
    /\ [](CalledForMissingRun(ret, runs) => ret.value = {} /\ ~ret.raised)
    /\ [][CalledForMissingRun(ret', runs) => runs' = runs /\ audit' = audit]_vars

\* set_execution was called for a run id that names no run, after a batch of
\* another run had been persisted with its audit rows.
C11_Witness ==
    /\ ret.method = "set_execution"
    /\ ret.run_id \notin DOMAIN runs
    /\ ret.value = {}
    /\ DOMAIN audit # {}

(***************************************************************************)
(* Properties of Executor.execute (src/executor/executor.py).              *)
(***************************************************************************)
\* The number of failed actions among the first k records of the batch.
FailedAmong(records, k) ==
    Cardinality({j \in 1..k : records[j].result = "fail"})

\* Every action that was processed was turned to while the number of FAILED
\* actions was below max_failures, and the records hold the processed
\* actions only: none stands for an action that was not processed.
ProcessedBelowThreshold(x) ==
    /\ \A k \in 0..(Len(x.records) - 1) :
          FailedAmong(x.records, k) < x.config.max_failures
    /\ Len(x.records) = x.executed
    /\ x.failure_count = FailedAmong(x.records, Len(x.records))
    /\ x.skipped = Len(x.recommendations) - Len(x.to_execute)

\* The loop was left by an exception or a KeyboardInterrupt.
CutShort(x) ==
    \E j \in DOMAIN x.errors :
        x.errors[j] \in {<<"Unexpected error">>, <<"Execution interrupted by user">>}

LiveResults(q) ==
    {q.action_results[i] : i \in {j \in DOMAIN q.action_results :
                                    /\ q.action_results[j].status = "executed"
                                    /\ ~q.action_results[j].simulated}}

\* C14: the pre_change_state recorded for a live action holds the
\* attributes the resource has immediately before the mutation: the storage
\* class the object has then, the lifecycle rules the bucket has then (none:
\* no lifecycle configuration), whatever the scan had seen.  A batch holds
\* at most one action per object and one per bucket, so the resource is,
\* immediately before its mutation, as it is when the call is made.
C14_PreChangeStateIsLive ==
    [][\A w \in Workers :
          (exe[w].pc = "idle" /\ exe'[w].pc = "returned") =>
             \A a \in LiveResults(exe'[w]) :
                /\ a.recommendation_type = "change_storage_class" =>
                      a.pre_change_state.storage_class =
                          s3.objects[a.pre_change_state.key].storage_class
                /\ a.recommendation_type = "add_lifecycle_policy" =>
                      a.pre_change_state.existing_lifecycle_rules = s3.lifecycle]_vars

\* The bucket after a live POST /execute of request on bucket, the S3 client
\* answering every call, followed, with nothing in between, by a live
\* rollback of the audit rows the execute wrote; with them, the results of
\* the execute and of the rollback.
ExecuteThenRollback(bucket, request) ==
    LET run == runs[request.run_id]
        q == EnterExecute(request, run.recommendations, run.scores,
                          env.granted, env.allow_destructive, nextExec)
        done == RunLoop(q, [i \in DOMAIN q.recs |-> "ok"], {}, bucket)
        rows == [i \in DOMAIN done.q.action_results |->
                    AuditRow(request.run_id, nextExec, done.q.action_results[i], Now)]
        r == [IdleRb EXCEPT !.request = [run_id |-> request.run_id, execution_id |-> nextExec,
                                         audit_ids |-> {}, dry_run |-> FALSE],
                            !.execution_id = nextExec, !.audit_records = rows]
        back == RunRollback(r, [i \in DOMAIN rows |-> "ok"], {}, done.bucket)
    IN  [executed |-> done.q.action_results, rolled |-> back.r.results,
         bucket |-> back.bucket]

\* C15: a reversible action executed live and then rolled back live, nothing
\* else touching the resource in between, leaves the resource as it was
\* immediately before the execute: the object has the storage class it had,
\* the bucket the lifecycle rules it had (none: no lifecycle configuration).
C15_RollbackRestores ==
    \A request \in Requests :
       (/\ request.run_id \in DOMAIN runs
        /\ runs[request.run_id].scores # << >>
        /\ nextExec <= MaxExecs) =>
          LET t == ExecuteThenRollback(s3, request)
          IN  \A i \in DOMAIN t.executed :
                 (/\ t.executed[i].status = "executed"
                  /\ ~t.executed[i].simulated
                  /\ t.rolled[i].status = "rolled_back") =>
                     /\ t.executed[i].recommendation_type = "change_storage_class" =>
                           t.bucket.objects[t.executed[i].pre_change_state.key].storage_class =
                               s3.objects[t.executed[i].pre_change_state.key].storage_class
                     /\ t.executed[i].recommendation_type = "add_lifecycle_policy" =>
                           t.bucket.lifecycle = s3.lifecycle

(***************************************************************************)
(* Properties of RollbackService.rollback.                                 *)
(***************************************************************************)
\* The inverse verbs rollback has invoked for an audit record.
InverseCalls(record) ==
    {c \in adapterLog : c.src = "rollback" /\ <<c.exec, c.idx>> = record.audit_id}

\* C16: rollback invokes an inverse adapter verb for an audit record only if
\* the record has rollback_available = true, action_status = EXECUTED and
\* type CHANGE_STORAGE_CLASS or ADD_LIFECYCLE_POLICY; every other record
\* yields a SKIPPED result and no adapter call.
C16_InverseVerbOnlyIfEligible ==
    rb.pc = "loop" =>
       /\ \A c \in adapterLog :
              \E i \in DOMAIN rb.results : c \in InverseCalls(rb.audit_records[i])
       /\ \A i \in DOMAIN rb.results :
              LET record == rb.audit_records[i]
                  ok == /\ record.rollback_available
                        /\ record.action_status = "executed"
                        /\ record.recommendation_type \in
                              {"change_storage_class", "add_lifecycle_policy"}
              IN  /\ rb.results[i].audit_id = record.audit_id
                  /\ InverseCalls(record) # {} => ok
                  /\ ~ok => /\ rb.results[i].status = "skipped"
                            /\ ~rb.results[i].rolled_back
                            /\ InverseCalls(record) = {}

\* C16 witness: a live rollback of two records with rollback_available, one
\* EXECUTED and rolled back by its inverse verb, the other FAILED and skipped
\* without a call.
C16_Witness ==
    /\ rb.pc = "loop"
    /\ Len(rb.results) = 2
    /\ ~rb.request.dry_run
    /\ \A i \in 1..2 : /\ rb.audit_records[i].rollback_available
                        /\ rb.audit_records[i].recommendation_type = "change_storage_class"
    /\ rb.audit_records[1].action_status = "executed"
    /\ rb.audit_records[2].action_status = "failed"
    /\ rb.results[1].status = "rolled_back"
    /\ InverseCalls(rb.audit_records[1]) # {}
    /\ rb.results[2].status = "skipped"
    /\ InverseCalls(rb.audit_records[2]) = {}

\* C17: a rollback request with dry_run = true changes no state anywhere:
\* no adapter verb is invoked, the bucket is as it was, no audit row (its
\* rollback_status, rolled_back_at, message) and no run row changes, then or
\* later on behalf of the request, and each eligible record yields a DRY_RUN
\* result.
C17_DryRunChangesNothing ==
    /\ [](rb.request.dry_run => rb.pc # "update")
    /\ [][(rb' # rb /\ rb'.request.dry_run /\ rb'.pc = "done") =>
            /\ adapterLog' = adapterLog
            /\ s3' = s3
            /\ audit' = audit
            /\ runs' = runs
            /\ LET records == ListExecutionAudit(audit, rb'.request.run_id,
                                                 rb'.execution_id,
                                                 AuditIdsOrNone(rb'.request.audit_ids))
               IN  /\ Len(rb'.results) = Len(records)
                   /\ \A i \in DOMAIN records :
                         /\ rb'.results[i].audit_id = records[i].audit_id
                         /\ ~rb'.results[i].rolled_back
                         /\ (/\ records[i].rollback_available
                             /\ records[i].action_status = "executed"
                             /\ records[i].recommendation_type \in REVERSIBLE_ACTIONS)
                            => rb'.results[i].status = "dry_run"]_vars

\* C17 witness: a dry-run rollback has answered DRY_RUN for an eligible
\* audit row, which is still pending.
C17_Witness ==
    /\ rb.pc = "done"
    /\ rb.request.dry_run
    /\ \E i \in DOMAIN rb.results :
          /\ rb.results[i].status = "dry_run"
          /\ rb.results[i].audit_id \in DOMAIN audit
          /\ audit[rb.results[i].audit_id].rollback_status = "pending"
          /\ audit[rb.results[i].audit_id].rollback_available

\* C18: after a live rollback request every audit row whose inverse action
\* succeeded has rollback_status = ROLLED_BACK with rolled_back_at set, every
\* row whose inverse action failed has rollback_status = FAILED with the
\* error message, and the rows reported SKIPPED are, at every step of the
\* request, as they were.
C18_AuditRowsFollowResults ==
    /\ [](rb.pc = "done" /\ ~rb.request.dry_run =>
            \A i \in DOMAIN rb.results :
               LET row == audit[rb.results[i].audit_id]
               IN  /\ rb.results[i].status = "rolled_back" =>
                         /\ row.rollback_status = "rolled_back"
                         /\ row.rolled_back_at # {}
                   /\ rb.results[i].status = "failed" =>
                         /\ row.rollback_status = "failed"
                         /\ row.message = rb.results[i].message)
    /\ [][rb'.pc \in {"update", "done"} /\ ~rb'.request.dry_run =>
            \A i \in DOMAIN rb'.results :
               rb'.results[i].status = "skipped" =>
                  audit'[rb'.results[i].audit_id] = audit[rb'.results[i].audit_id]]_vars

\* C18 witness: a live rollback has returned; one of its audit rows is
\* ROLLED_BACK with rolled_back_at set, another was reported SKIPPED.
C18_Witness ==
    /\ rb.pc = "done"
    /\ ~rb.request.dry_run
    /\ \E i, j \in DOMAIN rb.results :
          /\ rb.results[i].status = "rolled_back"
          /\ audit[rb.results[i].audit_id].rollback_status = "rolled_back"
          /\ audit[rb.results[i].audit_id].rolled_back_at # {}
          /\ rb.results[j].status = "skipped"
          /\ audit[rb.results[j].audit_id].rollback_status # "rolled_back"

\* The number of rollback results with a status.
ResultsWithStatus(results, status) ==
    Cardinality({i \in DOMAIN results : results[i].status = status})

\* C19: every RollbackResponse has attempted = the number of audit records
\* passed in, and rolled_back + skipped + failed + the number of DRY_RUN
\* result entries = attempted.
C19_RollbackCountersSum ==
    (rb.pc = "loop" /\ Len(rb.results) = Len(rb.audit_records)) =>
       LET R == RollbackResponded(rb)
       IN  /\ R.attempted = Len(rb.audit_records)
           /\ R.rolled_back + R.skipped + R.failed + ResultsWithStatus(R.results, "dry_run")
                 = R.attempted
           /\ R.rolled_back = ResultsWithStatus(R.results, "rolled_back")
           /\ R.skipped = ResultsWithStatus(R.results, "skipped")
           /\ R.failed = ResultsWithStatus(R.results, "failed")

\* C19 witness: a live rollback of two records is about to return, one
\* record skipped and one failed; and so is a dry run with a DRY_RUN entry.
C19_Witness ==
    /\ rb.pc = "loop"
    /\ Len(rb.audit_records) = 2
    /\ Len(rb.results) = 2
    /\ rb.skipped = 1
    /\ \/ rb.failed = 1
       \/ rb.request.dry_run /\ ResultsWithStatus(rb.results, "dry_run") = 1

(***************************************************************************)
(* Properties of RollbackManager.rollback_batch.                           *)
(***************************************************************************)
\* C20: with stop_on_failure set, batch rollback processes the records in
\* submission order and halts at the first record whose result is FAILED:
\* no record after a FAILED one is attempted, and the batch ends before its
\* last record only at a FAILED result; results that are not FAILED (not
\* available, already rolled back) do not stop it.
C20_HaltsAtFirstFailed ==
    (lr.pc # "idle" /\ lr.stop_on_failure) =>
       /\ Len(lr.results) <= Len(lr.records)
       /\ \A i \in DOMAIN lr.results :
             /\ lr.results[i].record_id = i
             /\ i < Len(lr.results) => lr.results[i].status # "failed"
       /\ (lr.pc = "done" /\ Len(lr.results) < Len(lr.records)) =>
             lr.results[Len(lr.results)].status = "failed"

(***************************************************************************)
(* Properties of RunStore.update_rollback_status.                          *)
(***************************************************************************)
\* C21: update_rollback_status(audit_id, status, message) on an existing
\* row sets rollback_status to status, sets rolled_back_at to the current
\* time if and only if status = ROLLED_BACK (it is left as it was
\* otherwise), keeps the existing message when message is null and takes
\* the new one otherwise, leaves the rest of the row and the other rows
\* alone, bumps the owning run's updated_at and returns true; for a
\* nonexistent audit_id it returns false and changes nothing.
C21_UpdateRollbackStatus ==
    [][ret'.method = "update_rollback_status" =>
         LET id == ret'.audit_id
         IN  IF id \in DOMAIN audit
             THEN /\ ret'.value = {TRUE}
                  /\ DOMAIN audit' = DOMAIN audit
                  /\ \A other \in DOMAIN audit \ {id} : audit'[other] = audit[other]
                  /\ audit'[id].rollback_status = ret'.rollback_status
                  /\ audit'[id].rolled_back_at =
                        IF ret'.rollback_status = "rolled_back" THEN {clock'}
                        ELSE audit[id].rolled_back_at
                  /\ audit'[id].message =
                        IF ret'.message = {} THEN audit[id].message
                        ELSE CHOOSE m \in ret'.message : TRUE
                  /\ [audit'[id] EXCEPT !.rollback_status = audit[id].rollback_status,
                                        !.rolled_back_at = audit[id].rolled_back_at,
                                        !.message = audit[id].message] = audit[id]
                  /\ clock' > clock
                  /\ runs'[audit[id].run_id].updated_at = clock'
                  /\ runs' = [runs EXCEPT ![audit[id].run_id].updated_at = clock']
             ELSE /\ ret'.value = {FALSE}
                  /\ audit' = audit
                  /\ runs' = runs]_vars

\* C21 witness: update_rollback_status(id, FAILED, None) has returned true
\* for a row that keeps its message and has no rolled_back_at.
C21_Witness ==
    /\ ret.method = "update_rollback_status"
    /\ ret.value = {TRUE}
    /\ ret.rollback_status = "failed"
    /\ ret.message = {}
    /\ audit[ret.audit_id].rollback_status = "failed"
    /\ audit[ret.audit_id].rolled_back_at = {}
    /\ audit[ret.audit_id].message # "note"
    /\ runs[audit[ret.audit_id].run_id].updated_at = clock

(***************************************************************************)
(* Properties of the routes' rejections.                                   *)
(***************************************************************************)
\* C22: an Execute request for a run that does not exist is rejected with
\* 404, and for a run with no scores (never scored, or scored with an empty
\* set) with 409; in both cases no adapter verb is invoked and no run or
\* audit state changes; so every execution batch of a run is preceded by a
\* non-empty scoring of that run.
C22_ExecuteRejections ==
    /\ [][\A w \in Workers :
            (Free(w) /\ exe'[w] # exe[w]) =>
               /\ exe'[w].pc \in {"not_found", "conflict", "returned"}
               /\ exe'[w].pc = "not_found" => Len(runs) < MaxRuns
               /\ exe'[w].pc = "conflict" =>
                     \E run_id \in DOMAIN runs : runs[run_id].scores = << >>
               /\ exe'[w].pc = "returned" =>
                     /\ exe'[w].request.run_id \in DOMAIN runs
                     /\ runs[exe'[w].request.run_id].scores # << >>
               /\ runs = << >> => exe'[w].pc = "not_found"
               /\ (\A run_id \in DOMAIN runs : runs[run_id].scores = << >>) =>
                     exe'[w].pc \in {"not_found", "conflict"}
               /\ exe'[w].pc \in {"not_found", "conflict"} =>
                     /\ adapterLog' = adapterLog
                     /\ s3' = s3
                     /\ runs' = runs
                     /\ audit' = audit
                     /\ nextExec' = nextExec]_vars
    /\ [](/\ \A run_id \in DOMAIN runs :
               runs[run_id].execution # {} =>
                  runs[run_id].scores # << >> /\ runs[run_id].status # "scanned"
          /\ \A id \in DOMAIN audit : runs[audit[id].run_id].scores # << >>
          /\ \A c \in adapterLog :
               c.src = "execute" => \E run_id \in DOMAIN runs : runs[run_id].scores # << >>
          /\ \A w \in Workers :
               exe[w].pc \in {"returned", "write"} =>
                  runs[exe[w].request.run_id].scores # << >>)

\* C22 witness: an Execute request was answered 409 for a run that was
\* scored with an empty set.
C22_Witness ==
    \E w \in Workers :
       /\ exe[w].pc = "conflict"
       /\ Len(runs) = 1
       /\ runs[1].status = "scored"
       /\ runs[1].scores = << >>
       /\ adapterLog = {}

\* C23: a Rollback request is rejected, without invoking any adapter verb
\* or changing any audit row, when the run does not exist (404), when no
\* execution_id is supplied and the run has no execution (409), or when no
\* audit record matches the execution/audit-id filter (404); a request that
\* is served is none of these.
C23_RollbackRejections ==
    [][(RollbackFree /\ rb' # rb) =>
         /\ rb'.pc \in {"not_found", "conflict", "update", "done"}
         /\ rb'.pc \in {"not_found", "conflict"} =>
               /\ adapterLog' = adapterLog
               /\ s3' = s3
               /\ audit' = audit
               /\ runs' = runs
         /\ runs = << >> => rb'.pc = "not_found"
         /\ rb'.pc = "conflict" =>
               \E run_id \in DOMAIN runs : runs[run_id].execution = {}
         /\ rb'.pc = "not_found" =>
               \/ Len(runs) < MaxRuns
               \/ \E request \in RollbackRequests :
                     /\ request.execution_id # 0 \/ runs[request.run_id].execution # {}
                     /\ ListExecutionAudit(audit, request.run_id,
                            IF request.execution_id # 0 THEN request.execution_id
                            ELSE (CHOOSE e \in runs[request.run_id].execution : TRUE).execution_id,
                            AuditIdsOrNone(request.audit_ids)) = << >>
         /\ (\A run_id \in DOMAIN runs : runs[run_id].execution = {}) /\ audit = EmptyTable
               => rb'.pc \in {"not_found", "conflict"}
         /\ rb'.pc \in {"update", "done"} =>
               /\ rb'.request.run_id \in DOMAIN runs
               /\ rb'.request.execution_id = 0 => runs[rb'.request.run_id].execution # {}
               /\ rb'.results # << >>
               /\ \A i \in DOMAIN rb'.results :
                     /\ rb'.results[i].audit_id \in DOMAIN audit
                     /\ audit[rb'.results[i].audit_id].run_id = rb'.request.run_id
                     /\ audit[rb'.results[i].audit_id].execution_id = rb'.execution_id]_vars

\* C23 witness: a Rollback request naming an execution was answered 404 for
\* a run that exists and has executed, no audit record matching; nothing was
\* rolled back.
C23_Witness ==
    /\ rb.pc = "not_found"
    /\ Len(runs) = MaxRuns
    /\ audit # EmptyTable
    /\ \A id \in DOMAIN audit : audit[id].execution_id # 1
    /\ \A c \in adapterLog : c.src # "rollback"

(***************************************************************************)
(* Properties of the mode of an execute request.                           *)
(***************************************************************************)
\* C24: the effective (mode, dry_run) of an execute request is
\* (DRY_RUN, true) when mode = DRY_RUN, whatever the dry_run override;
\* otherwise (mode, request.dry_run) when dry_run is set; otherwise
\* (mode, false): an explicit mode other than DRY_RUN runs live.  It is what
\* the response reports and what every result's simulated flag follows.
C24_EffectiveMode ==
    \A w \in Entered :
       LET q == exe[w]
           r == q.request
       IN  /\ r.mode = "dry_run" => q.mode = "dry_run" /\ q.dry_run
           /\ (r.mode # "dry_run" /\ r.dry_run = "true") => q.mode = r.mode /\ q.dry_run
           /\ (r.mode # "dry_run" /\ r.dry_run = "false") => q.mode = r.mode /\ ~q.dry_run
           /\ (r.mode # "dry_run" /\ r.dry_run = None) => q.mode = r.mode /\ ~q.dry_run
           /\ \A i \in DOMAIN q.action_results :
                 /\ q.action_results[i].simulated = q.dry_run
                 /\ q.action_results[i].status = "dry_run" => q.dry_run
                 /\ q.action_results[i].status = "executed" => ~q.dry_run
           /\ q.pc = "returned" =>
                 /\ Response(q).mode = q.mode
                 /\ Response(q).dry_run = q.dry_run

\* C24 witness: a request with mode SAFE and no dry_run override has run
\* live.
C24_Witness ==
    /\ exe[1].pc = "returned"
    /\ exe[1].request.mode = "safe"
    /\ exe[1].request.dry_run = None
    /\ exe[1].mode = "safe"
    /\ ~Response(exe[1]).dry_run
    /\ \E i \in DOMAIN exe[1].action_results :
          /\ exe[1].action_results[i].status = "executed"
          /\ ~exe[1].action_results[i].simulated

\* C25: an action with a score (one the max_actions guard lets through)
\* passes the mode gate if and only if the mode is DRY_RUN or FULL, or SAFE
\* and the score is safe_to_automate, or STANDARD and the score does not
\* require approval.  An action that fails the gate is recorded SKIPPED and
\* no adapter verb is invoked for it, even when dry_run is requested; one
\* that passes is counted eligible and is not SKIPPED.
C25_ModeGate ==
    \A w \in Entered :
       LET q == exe[w]
           scored == {i \in DOMAIN q.action_results :
                         /\ i - 1 < q.request.max_actions
                         /\ ScoreById(q.scores, q.recs[i].id) # {}}
           passes(i) ==
               LET score == CHOOSE s \in ScoreById(q.scores, q.recs[i].id) : TRUE
               IN  \/ q.mode \in {"dry_run", "full"}
                   \/ q.mode = "safe" /\ score.safe_to_automate
                   \/ q.mode = "standard" /\ ~score.requires_approval
       IN  /\ \A i \in scored :
                IF passes(i)
                THEN q.action_results[i].status # "skipped"
                ELSE /\ q.action_results[i].status = "skipped"
                     /\ q.action_results[i].message = "mode_policy"
                     /\ ~q.action_results[i].rollback_available
                     /\ \A c \in adapterLog :
                           ~(c.src = "execute" /\ c.exec = q.execution_id /\ c.idx = i - 1)
           /\ q.eligible = Cardinality({i \in scored : passes(i)})

\* C25 witness: under mode SAFE with dry_run requested, an action whose
\* score is not safe_to_automate was skipped and one whose score is was
\* simulated.
C25_Witness ==
    /\ exe[1].pc = "returned"
    /\ exe[1].request.mode = "safe"
    /\ exe[1].request.dry_run = "true"
    /\ Len(exe[1].action_results) = 2
    /\ \E i, j \in DOMAIN exe[1].action_results :
          /\ ScoreById(exe[1].scores, exe[1].recs[i].id) # {}
          /\ \A s \in ScoreById(exe[1].scores, exe[1].recs[i].id) : ~s.safe_to_automate
          /\ exe[1].action_results[i].status = "skipped"
          /\ exe[1].action_results[i].message = "mode_policy"
          /\ exe[1].action_results[j].status = "dry_run"
    /\ adapterLog = {}

(***************************************************************************)
(* Properties of the audit-id filter.                                      *)
(***************************************************************************)
\* The audit rows of a run, of one of its executions when execution_id is
\* not 0.
RowsOfExecution(run_id, execution_id) ==
    {audit[id] : id \in {id \in DOMAIN audit :
                            /\ audit[id].run_id = run_id
                            /\ execution_id # 0 => audit[id].execution_id = execution_id}}

\* C26: listing audit records with audit_ids = [] is listing them with
\* audit_ids omitted (None): no audit-id filter is applied and all audit rows
\* of the run/execution are returned; and a rollback with audit_ids = []
\* (the value of an omitted audit_ids) goes over all audit rows of the
\* run/execution.
C26_EmptyAuditIdsIsNoFilter ==
    /\ [](\A run_id \in 1..MaxRuns, execution_id \in 0..MaxExecs :
            /\ ListExecutionAudit(audit, run_id, execution_id, {{}})
                 = ListExecutionAudit(audit, run_id, execution_id, {})
            /\ Range(ListExecutionAudit(audit, run_id, execution_id, {{}}))
                 = RowsOfExecution(run_id, execution_id)
            /\ Len(ListExecutionAudit(audit, run_id, execution_id, {{}}))
                 = Cardinality(RowsOfExecution(run_id, execution_id)))
    /\ [][(RollbackFree /\ rb' # rb /\ rb'.pc \in {"update", "done"}
                       /\ rb'.request.audit_ids = {}) =>
            /\ {rb'.results[i].audit_id : i \in DOMAIN rb'.results}
                 = {row.audit_id : row \in RowsOfExecution(rb'.request.run_id, rb'.execution_id)}
            /\ Len(rb'.results)
                 = Cardinality(RowsOfExecution(rb'.request.run_id, rb'.execution_id))]_vars

\* C26 witness: a rollback with audit_ids = [] has gone over the two audit
\* rows of the execution.
C26_Witness ==
    /\ rb.pc \in {"update", "done"}
    /\ rb.request.audit_ids = {}
    /\ Len(rb.results) = 2
    /\ Cardinality(RowsOfExecution(rb.request.run_id, rb.execution_id)) = 2
    /\ ListExecutionAudit(audit, rb.request.run_id, rb.execution_id, {{}})
         = ListExecutionAudit(audit, rb.request.run_id, rb.execution_id, {})

(***************************************************************************)
(* Properties of ScoringService.score.                                     *)
(***************************************************************************)
\* C27: every score produced for a DELETE_STALE_OBJECT recommendation has
\* requires_approval = true and safe_to_automate = false, whatever the
\* recommendation's size, age and reason and the risk and confidence scores
\* computed.
C27_DeleteStaleNeedsApproval ==
    \A run_id \in DOMAIN runs :
       \A i \in DOMAIN runs[run_id].scores :
          runs[run_id].recommendations[i].recommendation_type = "delete_stale_object" =>
             /\ runs[run_id].scores[i].recommendation_id = runs[run_id].recommendations[i].id
             /\ runs[run_id].scores[i].requires_approval
             /\ ~runs[run_id].scores[i].safe_to_automate

\* C27 witness: a small DELETE_STALE_OBJECT recommendation was scored.
C27_Witness ==
    /\ Len(runs) = 1
    /\ runs[1].status = "scored"
    /\ runs[1].recommendations[1].recommendation_type = "delete_stale_object"
    /\ runs[1].recommendations[1].size_mib = 0
    /\ runs[1].scores[1].requires_approval
    /\ ~runs[1].scores[1].safe_to_automate

\* C28: scoring is a pure function of its inputs: scoring the same
\* recommendations again, at any later time, yields the scores the run
\* already has (risk_score, confidence_score, requires_approval,
\* safe_to_automate).
C28_ScoringIsPure ==
    [][\A run_id \in DOMAIN runs :
          (/\ runs[run_id].scores # << >>
           /\ runs'[run_id].recommendations = runs[run_id].recommendations)
          => runs'[run_id].scores = runs[run_id].scores]_vars

(***************************************************************************)
(* Interruption of Executor.execute.                                       *)
(***************************************************************************)
\* The batch was interrupted by the user.
Interrupted(x) ==
    \E j \in DOMAIN x.errors : x.errors[j] = <<"Execution interrupted by user">>

\* C29: when an execute batch is interrupted between two actions the loop
\* ends there: no further action is processed, the records of the actions
\* already performed stay as they are, and no rollback is run.
C29_InterruptEndsTheLoop ==
    /\ [](Interrupted(lx) =>
             /\ lx.pc = "done"
             /\ Len(lx.records) = lx.executed
             /\ lx.next = lx.executed + 1
             /\ \A k \in DOMAIN lx.records :
                   /\ lx.records[k].id = lx.to_execute[k].id
                   /\ lx.records[k].result \in {"success", "skip", "fail"}
             /\ lr = IdleLr)
    /\ [][/\ Interrupted(lx) => lx' = lx /\ lr' = lr
          /\ (~Interrupted(lx) /\ Interrupted(lx')) =>
                /\ SubSeq(lx'.records, 1, Len(lx.records)) = lx.records
                /\ Len(lx'.records) = Len(lx.records) + 1]_vars

\* C29 witness: a batch was interrupted after its first action with actions
\* left to process.
C29_Witness ==
    /\ Interrupted(lx)
    /\ lx.pc = "done"
    /\ Len(lx.records) = 1
    /\ Len(lx.to_execute) > 1

(***************************************************************************)
(* Errors of single buckets during a scan.                                 *)
(***************************************************************************)
\* The findings of the buckets of the account whose calls succeed, in order.
RECURSIVE FindingsOfTheOthers(_)
FindingsOfTheOthers(account) ==
    IF account = << >> THEN << >>
    ELSE (IF Head(account).fault = "none" THEN ScanBucket(Head(account).bucket)
          ELSE << >>) \o FindingsOfTheOthers(Tail(account))

\* C30: an error of any kind while scanning one bucket does not halt the
\* scan: the scan completes and returns the findings of all other buckets,
\* the failing bucket contributing none.
C30_BucketErrorDoesNotHaltScan ==
    ret.method = "scan" =>
       /\ ~ret.raised
       /\ ret.value = {WithIds(FindingsOfTheOthers(s3))}
       /\ runs[ret.run_id].recommendations = WithIds(FindingsOfTheOthers(s3))

(***************************************************************************)
(* Properties of the eligible counter.                                     *)
(***************************************************************************)
\* The results of q that stand for an action that passed the max_actions,
\* score and mode gates: DRY_RUN, EXECUTED, BLOCKED, and FAILED with a score.
CountedEligible(q) ==
    {i \in DOMAIN q.action_results :
        \/ q.action_results[i].status \in {"dry_run", "executed", "blocked"}
        \/ /\ q.action_results[i].status = "failed"
           /\ ScoreById(q.scores, q.recs[i].id) # {}}

\* C31: in every ExecuteResponse eligible is the number of results with
\* status DRY_RUN, EXECUTED, BLOCKED, or FAILED with a score present;
\* actions skipped by max_actions or by mode and actions failed for a
\* missing score are not counted.
C31_EligibleCounter ==
    \A w \in Entered :
       /\ exe[w].eligible = Cardinality(CountedEligible(exe[w]))
       /\ exe[w].pc = "returned" =>
             /\ Response(exe[w]).eligible = Cardinality(CountedEligible(exe[w]))
             /\ \A i \in DOMAIN exe[w].action_results :
                   i \notin CountedEligible(exe[w]) <=>
                      exe[w].action_results[i].message \in
                          {"max_actions", "mode_policy", "missing_score"}

\* C31 witness: a response of two results, one skipped by the mode and one
\* blocked, with eligible = 1.
C31_Witness ==
    /\ exe[1].pc = "returned"
    /\ Len(exe[1].action_results) = 2
    /\ \E i, j \in DOMAIN exe[1].action_results :
          /\ exe[1].action_results[i].message = "mode_policy"
          /\ exe[1].action_results[j].status = "blocked"
    /\ Response(exe[1]).eligible = 1

(***************************************************************************)
(* Repeated rollbacks in the server.                                       *)
(***************************************************************************)
\* C32: an audit row is rolled back at most once: a live rollback request
\* that covers a row whose rollback_status is already ROLLED_BACK does not
\* invoke the inverse adapter verb for that row again (the row is skipped).
C32_RolledBackAtMostOnce ==
    [][(/\ RollbackFree
        /\ rb'.pc \in {"update", "done"}
        /\ ~rb'.request.dry_run)
       => \A i \in DOMAIN rb'.results :
             audit[rb'.results[i].audit_id].rollback_status = "rolled_back" =>
                /\ rb'.results[i].status = "skipped"
                /\ ~rb'.results[i].rolled_back]_vars

(***************************************************************************)
(* Properties of Executor.rollback_batch.                                  *)
(***************************************************************************)
\* C33: rolling back a batch that was executed in DRY_RUN mode invokes no
\* mutating adapter verb.
C33_DryRunBatchRollsBackNothing ==
    (lr.pc = "cli" /\ lr.file.dry_run) =>
       \A c \in adapterLog : c.src # "cli_rollback"

\* C38: after rollback_batch has rolled a record back, a later
\* rollback_batch of the batch, in the same or a new process, reports
\* ALREADY_ROLLED_BACK for that record and does not invoke the inverse verb
\* for it again (the ROLLED_BACK status was persisted with the batch).
C38_RollbackIsPersisted ==
    [][(lr.pc = "cli" /\ lr'.calls = lr.calls + 1) =>
          \A k \in DOMAIN lr.results :
             lr.results[k].success =>
                /\ lr'.file.records[lr.results[k].record_id].status = "rolled_back"
                /\ \E j \in DOMAIN lr'.results :
                      /\ lr'.results[j].record_id = lr.results[k].record_id
                      /\ lr'.results[j].status = "already_rolled_back"
                /\ \A c \in adapterLog' :
                      ~(/\ c.src = "cli_rollback"
                        /\ c.call = lr'.calls
                        /\ c.rec = lr.results[k].record_id)]_vars

(***************************************************************************)
(* Properties of the rollback columns of the audit table.                  *)
(***************************************************************************)
\* C34: in every reachable store state an audit row has a non-null
\* rolled_back_at only if its rollback_status is ROLLED_BACK; rows that are
\* PENDING, NOT_APPLICABLE or FAILED have rolled_back_at null.
C34_RolledBackAtOnlyIfRolledBack ==
    \A id \in DOMAIN audit :
       audit[id].rolled_back_at # {} => audit[id].rollback_status = "rolled_back"

\* C35: under any sequence of Scan, Score, Execute and Rollback requests an
\* audit row created with rollback_available = false keeps rollback_status
\* NOT_APPLICABLE forever; rollback_status changes only on rows with
\* rollback_available = true.
C35_NotApplicableForever ==
    /\ [](\A id \in DOMAIN audit :
            ~audit[id].rollback_available =>
               /\ audit[id].rollback_status = "not_applicable"
               /\ audit[id].rolled_back_at = {})
    /\ [][\A id \in DOMAIN audit :
            /\ id \in DOMAIN audit'
            /\ audit'[id].rollback_available = audit[id].rollback_available
            /\ audit'[id].rollback_status # audit[id].rollback_status =>
                  audit[id].rollback_available]_vars

\* C35 witness: a live rollback of a batch has been served and its updates
\* made: one row is ROLLED_BACK, and a row of the same batch that was
\* created with rollback_available = false is still NOT_APPLICABLE.
C35_Witness ==
    /\ rb.pc = "done"
    /\ ~rb.request.dry_run
    /\ \E i, j \in DOMAIN rb.results :
          /\ rb.results[i].status = "rolled_back"
          /\ audit[rb.results[i].audit_id].rollback_status = "rolled_back"
          /\ rb.results[j].status = "skipped"
          /\ ~audit[rb.results[j].audit_id].rollback_available
          /\ audit[rb.results[j].audit_id].action_status = "executed"
          /\ audit[rb.results[j].audit_id].rollback_status = "not_applicable"

(***************************************************************************)
(* Properties of the scorer and the executor together.                     *)
(***************************************************************************)
\* The scores of the call q are those ScoringService.score gives its
\* recommendations, as Scan -> Score -> Execute passes them.
ScoredByTheScorer(q) ==
    /\ Len(q.scores) = Len(q.recs)
    /\ \A i \in DOMAIN q.recs :
          /\ q.scores[i].recommendation_id = q.recs[i].id
          /\ q.scores[i].requires_approval = ScoreOf(q.recs[i]).requires_approval
          /\ q.scores[i].safe_to_automate = ScoreOf(q.recs[i]).safe_to_automate

\* C36: through Scan -> Score -> Execute the adapter's delete_object is
\* invoked for a recommendation only when the request's mode is FULL with
\* effective dry_run = false, allow_destructive is enabled and both
\* s3:GetObject and s3:DeleteObject are granted; in DRY_RUN, SAFE and
\* STANDARD modes no object is ever deleted.
C36_DeleteOnlyInFull ==
    \A w \in Entered :
       ScoredByTheScorer(exe[w]) =>
          \A c \in adapterLog :
             (c.src = "execute" /\ c.exec = exe[w].execution_id /\ c.verb = "delete_object") =>
                /\ exe[w].request.mode = "full"
                /\ exe[w].mode = "full"
                /\ ~exe[w].dry_run
                /\ exe[w].allow_destructive
                /\ {"s3:GetObject", "s3:DeleteObject"} \subseteq exe[w].granted
                /\ exe[w].recs[c.idx + 1].recommendation_type = "delete_stale_object"

\* C36 witness: a FULL request without a dry_run override, with the scorer's
\* scores, has deleted an object.
C36_Witness ==
    /\ exe[1].pc = "returned"
    /\ ScoredByTheScorer(exe[1])
    /\ exe[1].request.mode = "full"
    /\ exe[1].request.dry_run = None
    /\ \E c \in adapterLog :
          /\ c.src = "execute"
          /\ c.exec = exe[1].execution_id
          /\ c.verb = "delete_object"
          /\ c.ok

\* C37: execution modes are nested for the scores the scorer produces: a
\* recommendation eligible in SAFE mode is eligible in STANDARD mode (no
\* score has both safe_to_automate and requires_approval), and one eligible
\* in STANDARD mode is eligible in FULL mode.
C37_ModesAreNested ==
    \A run_id \in DOMAIN runs :
       \A i \in DOMAIN runs[run_id].scores :
          LET score == runs[run_id].scores[i]
          IN  /\ ~(score.safe_to_automate /\ score.requires_approval)
              /\ IsModeEligible("safe", score) => IsModeEligible("standard", score)
              /\ IsModeEligible("standard", score) => IsModeEligible("full", score)

====
